---- MODULE Spec2Model ----
(***************************************************************************)
(* A model of the page-structure inference engine of src/layout:          *)
(*   detect_controls.py    remove_overlapping, detect_spans, ...          *)
(*   extract_layout.py     classify_page_type, grid inference, ...        *)
(*   combined_extractor.py extract_combined and the control filter        *)
(*                                                                         *)
(* Units.  Raster coordinates are whole pixels.  Document coordinates are *)
(* hundredths of a point (the code rounds every bbox to 2 decimals).  A   *)
(* quotient the code computes in floating point is kept exact: it is      *)
(* compared by cross-multiplication and rounded with RoundHalfEven, which  *)
(* is what Python's round() does.                                          *)
(***************************************************************************)
EXTENDS Integers, Sequences, FiniteSets, TLC

VARIABLES
    \* remove_overlapping
    controls, iou_threshold, keep, ro_idx, ro_pc,
    \* detect_spans
    cells, consumed, spans, row_idx, col_idx, ds_pc,
    \* classify_page_type: the arguments of a call and what it returned; callB and
    \* classificationB are a second, independent call
    blocks, columns, page_width, page_height, control_count, classification,
    callB, classificationB, cls_pc,
    \* apply_grid_to_row_group: the page's rows, the group's row indices, the result
    rows, row_indices, grid, grid_pc,
    \* filter_valid_controls: the detections (raster pixels), the scale factor in
    \* hundredths and the controls returned; blocks and page_width are its other
    \* arguments
    raw_controls, scale_factor, valid_controls, fv_pc,
    \* extract_combined: the page requested and the one page of the document, the
    \* rows extract_pdf made, the temporary image file ("none", "exists" or
    \* "deleted"), the detector's row bands, the functions called so far, the
    \* record returned and the position in the function; detections is the
    \* "controls" entry of the detector's report
    page_num, doc_page, layout_rows, temp_file, row_bands, stages, result, ex_pc,
    detections,
    \* detect_row_bands: for every pixel row whether its projection is above the
    \* content threshold, the two parameters and the bands returned
    is_content, min_gap, min_row_height, detected_bands, rb_pc,
    \* assign_text_to_cells followed by detect_spans: the grid (None or its size),
    \* for every text block the cell that holds its centre, what
    \* assign_text_to_cells returned, and the position of the caller
    cell_grid, text_blocks, assigned, tc_pc,
    \* group_consecutive_rows: the classified rows it is given and the groups it
    \* returns
    input_rows, emitted_groups, gc_pc,
    \* find_table_regions: the detected lines and the regions returned
    h_lines, v_lines, regions, tr_pc,
    \* extract_page_blocks: the spans of the page in extraction order, the blocks
    \* after span merging, after the sort by (y0, x0), and as returned
    raw_spans, line_blocks, sorted_blocks, page_blocks, ab_pc,
    \* the scale factor on its way through extract_combined: the page's height in
    \* points, the height of the rendered image in pixels, the factor the
    \* detector reports and the one the fusion stage uses (hundredths)
    pdf_height, image_height, reported_scale, fusion_scale, sc_pc

dedupVars == <<controls, iou_threshold, keep, ro_idx, ro_pc>>
spanVars  == <<cells, consumed, spans, row_idx, col_idx, ds_pc>>
classVars == <<blocks, columns, page_width, page_height, control_count, classification,
               callB, classificationB, cls_pc>>
gridVars  == <<rows, row_indices, grid, grid_pc>>
filterVars == <<raw_controls, scale_factor, valid_controls, fv_pc>>
extractVars == <<page_num, doc_page, layout_rows, temp_file, row_bands, stages, result, ex_pc,
                 detections>>
bandVars  == <<is_content, min_gap, min_row_height, detected_bands, rb_pc>>
cellVars  == <<cell_grid, text_blocks, assigned, tc_pc>>
groupVars == <<input_rows, emitted_groups, gc_pc>>
regionVars == <<h_lines, v_lines, regions, tr_pc>>
blockVars == <<raw_spans, line_blocks, sorted_blocks, page_blocks, ab_pc>>
scaleVars == <<pdf_height, image_height, reported_scale, fusion_scale, sc_pc>>
vars      == <<dedupVars, spanVars, classVars, gridVars, filterVars, extractVars, bandVars,
               cellVars, groupVars, regionVars, blockVars, scaleVars>>

\* What the actions of one component leave alone: every other component.
notDedup   == <<spanVars, classVars, gridVars, filterVars, extractVars, bandVars, cellVars, groupVars, regionVars, blockVars, scaleVars>>
notSpans   == <<dedupVars, classVars, gridVars, filterVars, extractVars, bandVars, cellVars, groupVars, regionVars, blockVars, scaleVars>>
notClass   == <<dedupVars, spanVars, gridVars, filterVars, extractVars, bandVars, cellVars, groupVars, regionVars, blockVars, scaleVars>>
notGrid    == <<dedupVars, spanVars, classVars, filterVars, extractVars, bandVars, cellVars, groupVars, regionVars, blockVars, scaleVars>>
notFilter  == <<dedupVars, spanVars, gridVars, extractVars, bandVars, cellVars, groupVars, regionVars, blockVars, scaleVars>>
notExtract == <<dedupVars, spanVars, gridVars, bandVars, cellVars, groupVars, regionVars, blockVars, scaleVars>>
notCellStage == <<dedupVars, classVars, gridVars, filterVars, extractVars, bandVars, groupVars, regionVars, blockVars, scaleVars>>
notGroups  == <<dedupVars, spanVars, classVars, gridVars, filterVars, extractVars, bandVars,
               cellVars, regionVars, blockVars, scaleVars>>
notRegions == <<dedupVars, spanVars, classVars, gridVars, filterVars, extractVars, bandVars,
               cellVars, groupVars, blockVars, scaleVars>>
notBlocks  == <<dedupVars, spanVars, classVars, gridVars, filterVars, extractVars, bandVars,
               cellVars, groupVars, regionVars, scaleVars>>
notScale   == <<dedupVars, spanVars, classVars, gridVars, filterVars, extractVars, bandVars,
               cellVars, groupVars, regionVars, blockVars>>
notBands   == <<dedupVars, spanVars, classVars, gridVars, filterVars, extractVars, cellVars, groupVars, regionVars, blockVars, scaleVars>>

----------------------------------------------------------------------------
(* Arithmetic helpers *)

Min(a, b) == IF a < b THEN a ELSE b
Max(a, b) == IF a > b THEN a ELSE b
Abs(a)    == IF a < 0 THEN -a ELSE a

\* Python's round(n / d) for d > 0: to the nearest integer, ties to even.
RoundHalfEven(n, d) ==
    LET q == n \div d
        r == n % d
    IN  IF 2 * r < d THEN q
        ELSE IF 2 * r > d THEN q + 1
        ELSE IF q % 2 = 0 THEN q ELSE q + 1

RECURSIVE SeqSum(_)
SeqSum(s) == IF s = <<>> THEN 0 ELSE Head(s) + SeqSum(Tail(s))


\* sorted() of a list of integers.
RECURSIVE InsertInt(_, _)
InsertInt(s, x) ==
    IF s = <<>> THEN <<x>>
    ELSE IF Head(s) <= x THEN <<Head(s)>> \o InsertInt(Tail(s), x)
         ELSE <<x>> \o s

RECURSIVE SortInts(_)
SortInts(s) ==
    IF s = <<>> THEN <<>> ELSE InsertInt(SortInts(SubSeq(s, 1, Len(s) - 1)), s[Len(s)])

\* collections.Counter: how often v occurs in the list s.
CountOf(s, v) == Cardinality({ i \in 1..Len(s) : s[i] = v })

SeqRange(s) == { s[i] : i \in 1..Len(s) }

NoValue == "none"

----------------------------------------------------------------------------
(* remove_overlapping (detect_controls.py) *)

\* Thresholds in tenths: detect_checkboxes passes 0.3, detect_input_boxes
\* uses the default 0.5.
CheckboxIouThreshold == 3
DefaultIouThreshold  == 5

MaxControls == 3
BoxOrigins  == {0, 1}
BoxSizes    == {2, 3}
Confidences == {5, 7}

ControlInputs ==
    { [bbox |-> [x0 |-> x, y0 |-> y, x1 |-> x + s, y1 |-> y + s], confidence |-> c] :
        x \in BoxOrigins, y \in BoxOrigins, s \in BoxSizes, c \in Confidences }

\* Lines 416-430: the overlap test of one candidate against one kept control.
IoUExceedsNoUnion(bbox, kept_bbox, t) ==
    LET x0 == Max(bbox.x0, kept_bbox.x0)
        y0 == Max(bbox.y0, kept_bbox.y0)
        x1 == Min(bbox.x1, kept_bbox.x1)
        y1 == Min(bbox.y1, kept_bbox.y1)
    IN  /\ x0 < x1
        /\ y0 < y1
        /\ LET intersection == (x1 - x0) * (y1 - y0)
               area1 == (bbox.x1 - bbox.x0) * (bbox.y1 - bbox.y0)
               area2 == (kept_bbox.x1 - kept_bbox.x0) * (kept_bbox.y1 - kept_bbox.y0)
               union == area1 + area2
           IN  union > 0 /\ 10 * intersection > t * union

IoUExceeds(bbox, kept_bbox, t) ==
    LET x0 == Max(bbox.x0, kept_bbox.x0)
        y0 == Max(bbox.y0, kept_bbox.y0)
        x1 == Min(bbox.x1, kept_bbox.x1)
        y1 == Min(bbox.y1, kept_bbox.y1)
    IN  /\ x0 < x1
        /\ y0 < y1
        /\ LET intersection == (x1 - x0) * (y1 - y0)
               area1 == (bbox.x1 - bbox.x0) * (bbox.y1 - bbox.y0)
               area2 == (kept_bbox.x1 - kept_bbox.x0) * (kept_bbox.y1 - kept_bbox.y0)
               union == area1 + area2 - intersection
           IN  union > 0 /\ 10 * intersection > t * union

\* Line 406: sorted(..., key=confidence, reverse=True); Python's sort is stable.
RECURSIVE InsertByConfidence(_, _)
InsertByConfidence(s, c) ==
    IF s = <<>> THEN <<c>>
    ELSE IF Head(s).confidence >= c.confidence
         THEN <<Head(s)>> \o InsertByConfidence(Tail(s), c)
         ELSE <<c>> \o s

RECURSIVE SortByConfidenceDesc(_)
SortByConfidenceDesc(s) ==
    IF s = <<>> THEN <<>>
    ELSE InsertByConfidence(SortByConfidenceDesc(SubSeq(s, 1, Len(s) - 1)), s[Len(s)])

OverlapsKept(control, kept, t) ==
    \E k \in 1..Len(kept) : IoUExceeds(control.bbox, kept[k].bbox, t)

DedupInit ==
    /\ controls \in UNION { [1..n -> ControlInputs] : n \in 0..MaxControls }
    /\ iou_threshold \in {CheckboxIouThreshold, DefaultIouThreshold}
    /\ keep = <<>>
    /\ ro_idx = 0
    /\ ro_pc = "call"

DedupIdle ==
    /\ controls = <<>>
    /\ iou_threshold = DefaultIouThreshold
    /\ keep = <<>>
    /\ ro_idx = 0
    /\ ro_pc = "idle"

\* Lines 402-403: an empty list is returned as it is.
RemoveOverlappingEmpty ==
    /\ ro_pc = "call"
    /\ controls = <<>>
    /\ ro_pc' = "done"
    /\ UNCHANGED <<controls, iou_threshold, keep, ro_idx>>
    /\ UNCHANGED notDedup

\* Line 406: the list is sorted before the loop starts.
RemoveOverlappingSort ==
    /\ ro_pc = "call"
    /\ controls # <<>>
    /\ controls' = SortByConfidenceDesc(controls)
    /\ ro_idx' = 1
    /\ ro_pc' = "loop"
    /\ UNCHANGED <<iou_threshold, keep>>
    /\ UNCHANGED notDedup

\* Lines 409-433: one iteration of the loop over the sorted controls.
RemoveOverlappingKeep ==
    /\ ro_pc = "loop"
    /\ ro_idx <= Len(controls)
    /\ ~OverlapsKept(controls[ro_idx], keep, iou_threshold)
    /\ keep' = Append(keep, controls[ro_idx])
    /\ ro_idx' = ro_idx + 1
    /\ UNCHANGED <<controls, iou_threshold, ro_pc>>
    /\ UNCHANGED notDedup

RemoveOverlappingDrop ==
    /\ ro_pc = "loop"
    /\ ro_idx <= Len(controls)
    /\ OverlapsKept(controls[ro_idx], keep, iou_threshold)
    /\ ro_idx' = ro_idx + 1
    /\ UNCHANGED <<controls, iou_threshold, keep, ro_pc>>
    /\ UNCHANGED notDedup

\* Line 435.
RemoveOverlappingReturn ==
    /\ ro_pc = "loop"
    /\ ro_idx > Len(controls)
    /\ ro_pc' = "done"
    /\ UNCHANGED <<controls, iou_threshold, keep, ro_idx>>
    /\ UNCHANGED notDedup

----------------------------------------------------------------------------
(* detect_spans (detect_controls.py) *)

MaxGridRows == 4
MaxGridCols == 2

\* A cell grid after assign_text_to_cells: cells[r][c] is TRUE when the cell's
\* content list is non-empty.  Rows and columns are numbered from 0 as in the code.
CellGrids ==
    UNION { [0..(nr - 1) -> [0..(nc - 1) -> BOOLEAN]] :
              nr \in 1..MaxGridRows, nc \in 1..MaxGridCols }

NumRows(g) == Cardinality(DOMAIN g)
NumCols(g) == IF NumRows(g) = 0 THEN 0 ELSE Cardinality(DOMAIN g[0])

\* Lines 902-908: 1 + the run of empty cells directly below (row, col).
RECURSIVE EmptyRunBelow(_, _, _)
EmptyRunBelow(g, r, c) ==
    IF r < NumRows(g) /\ ~g[r][c] THEN 1 + EmptyRunBelow(g, r + 1, c) ELSE 0

\* Lines 911-917: the run of empty cells directly to the right of (row, col).
RECURSIVE EmptyRunRight(_, _, _)
EmptyRunRight(g, r, c) ==
    IF c < NumCols(g) /\ ~g[r][c] THEN 1 + EmptyRunRight(g, r, c + 1) ELSE 0

\* A rowspan that counts every empty cell below, not only the run that starts
\* directly under the cell.
RowSpanCountingAllEmpty(g, r, c) ==
    IF g[r][c] THEN 1 + Cardinality({ k \in (r + 1)..(NumRows(g) - 1) : ~g[k][c] }) ELSE 1

RowSpanOf(g, r, c) == IF g[r][c] THEN 1 + EmptyRunBelow(g, r + 1, c) ELSE 1
ColSpanOf(g, r, c) == IF g[r][c] THEN 1 + EmptyRunRight(g, r, c + 1) ELSE 1

\* The next (row, col) of the nested for loops of lines 894-895.
NextCell(g, r, c) ==
    IF c + 1 < NumCols(g) THEN <<r, c + 1>> ELSE <<r + 1, 0>>

SpansInit ==
    /\ cells \in CellGrids
    /\ consumed = [r \in DOMAIN cells |-> [c \in DOMAIN cells[0] |-> FALSE]]
    /\ spans = <<>>
    /\ row_idx = 0
    /\ col_idx = 0
    /\ ds_pc = "loop"

SpansIdle ==
    /\ cells = <<>>
    /\ consumed = <<>>
    /\ spans = <<>>
    /\ row_idx = 0
    /\ col_idx = 0
    /\ ds_pc = "idle"

\* Lines 896-897: a consumed cell is skipped.
DetectSpansSkip ==
    /\ ds_pc = "loop"
    /\ row_idx < NumRows(cells)
    /\ consumed[row_idx][col_idx]
    /\ row_idx' = NextCell(cells, row_idx, col_idx)[1]
    /\ col_idx' = NextCell(cells, row_idx, col_idx)[2]
    /\ UNCHANGED <<cells, consumed, spans, ds_pc>>
    /\ UNCHANGED notSpans

\* Lines 899-932: the span of an unconsumed cell is measured, its rectangle is
\* marked consumed and the span is appended.
DetectSpansEmit ==
    /\ ds_pc = "loop"
    /\ row_idx < NumRows(cells)
    /\ ~consumed[row_idx][col_idx]
    /\ LET rowspan == RowSpanOf(cells, row_idx, col_idx)
           colspan == ColSpanOf(cells, row_idx, col_idx)
       IN  /\ consumed' =
                [r \in DOMAIN consumed |-> [c \in DOMAIN consumed[r] |->
                    IF /\ r >= row_idx /\ r < row_idx + rowspan
                       /\ c >= col_idx /\ c < col_idx + colspan
                    THEN TRUE ELSE consumed[r][c]]]
           /\ spans' = Append(spans,
                [row |-> row_idx, col |-> col_idx, rowspan |-> rowspan,
                 colspan |-> colspan, is_empty |-> ~cells[row_idx][col_idx]])
    /\ row_idx' = NextCell(cells, row_idx, col_idx)[1]
    /\ col_idx' = NextCell(cells, row_idx, col_idx)[2]
    /\ UNCHANGED <<cells, ds_pc>>
    /\ UNCHANGED notSpans

\* Line 934.
DetectSpansReturn ==
    /\ ds_pc = "loop"
    /\ row_idx >= NumRows(cells)
    /\ ds_pc' = "done"
    /\ UNCHANGED <<cells, consumed, spans, row_idx, col_idx>>
    /\ UNCHANGED notSpans

----------------------------------------------------------------------------
(* detect_columns and classify_page_type (extract_layout.py) *)

\* Blocks are records with a bbox in hundredths of a point; page_width and
\* page_height are whole points.

\* detect_columns, lines 699-715, on the x0 values it collected: clusters of sorted
\* positions less than x_tolerance = 10pt apart, each reported as its mean
\* rounded to 2 decimals.
ColumnTolerance == 1000

RECURSIVE ClusterStarts(_, _, _)
ClusterStarts(xs, current_cluster, acc) ==
    IF xs = <<>>
    THEN IF current_cluster = <<>> THEN acc
         ELSE Append(acc, RoundHalfEven(SeqSum(current_cluster), Len(current_cluster)))
    ELSE IF current_cluster # <<>> /\ Head(xs) - current_cluster[Len(current_cluster)] < ColumnTolerance
         THEN ClusterStarts(Tail(xs), Append(current_cluster, Head(xs)), acc)
         ELSE ClusterStarts(Tail(xs), <<Head(xs)>>,
                IF current_cluster = <<>> THEN acc
                ELSE Append(acc, RoundHalfEven(SeqSum(current_cluster), Len(current_cluster))))

BlockStarts(bs) == [i \in 1..Len(bs) |-> bs[i].bbox.x0]

DetectColumnsOfBlocks(bs) == ClusterStarts(SortInts(BlockStarts(bs)), <<>>, <<>>)

\* Lines 756-763: the column estimate.
ColumnCount(bs, cols) ==
    IF cols = <<>> THEN 1
    ELSE LET x_positions == [i \in 1..Len(bs) |-> RoundHalfEven(bs[i].bbox.x0, 1000) * 10]
             significant_cols ==
                 Cardinality({ c \in SeqRange(x_positions) : CountOf(x_positions, c) >= 3 })
         IN  Max(1, significant_cols \div 3)

\* Line 766: text_density = len(blocks) / (page_area / 10000), as a fraction.
DensityNum(bs) == Len(bs) * 10000
DensityDen(pw, ph) == pw * ph

\* Lines 769-771: width_ratio = avg_width / page_width, as a fraction (0 when
\* page_width is not positive).
WidthNum(bs, pw) ==
    IF pw > 0 THEN SeqSum([i \in 1..Len(bs) |-> bs[i].bbox.x1 - bs[i].bbox.x0]) ELSE 0
WidthDen(bs, pw) == IF pw > 0 THEN Len(bs) * pw * 100 ELSE 1

\* Lines 774-778: the number of blocks whose rounded x0 is shared by 3 or more.
AlignedBlocks(bs) ==
    LET x_starts == [i \in 1..Len(bs) |-> RoundHalfEven(bs[i].bbox.x0, 100)]
    IN  Cardinality({ i \in 1..Len(bs) : CountOf(x_starts, x_starts[i]) >= 3 })

\* Lines 780-787: the reported signals, the fractions rounded to 3 decimals
\* (kept in thousandths).  At an exact decimal tie Python rounds the binary
\* float, which may fall on either side; the model rounds such a tie to even.
Signals(bs, cols, pw, ph, cc) ==
    [ control_count   |-> cc,
      column_count    |-> ColumnCount(bs, cols),
      text_density    |-> RoundHalfEven(DensityNum(bs) * 1000, DensityDen(pw, ph)),
      avg_width_ratio |-> RoundHalfEven(WidthNum(bs, pw) * 1000, WidthDen(bs, pw)),
      alignment_score |-> RoundHalfEven(AlignedBlocks(bs) * 1000, Len(bs)),
      block_count     |-> Len(bs) ]

\* Lines 789-839: the decision chain, on the unrounded values.  dn/dd is the
\* density, wn/wd the width ratio, al/n the alignment score.
DecideIgnoringControls(cc, column_count, dn, dd, wn, wd, al, n) ==
    IF cc >= 2 THEN <<"form", "has_controls">>
    ELSE IF dn > 5 * dd THEN <<"text", "high_density_no_controls">>
    ELSE IF column_count >= 2 THEN <<"text", "multi_column">>
    ELSE IF 10 * al > 4 * n /\ 10 * wn < 6 * wd /\ dn < 5 * dd
         THEN <<"form", "grid_alignment">>
    ELSE IF 10 * wn > 7 * wd /\ 10 * dn > 5 * dd THEN <<"text", "prose_layout">>
    ELSE <<"form", "default">>

DecidePageType(cc, column_count, dn, dd, wn, wd, al, n) ==
    LET has_controls == cc > 0
    IN  IF cc >= 2 THEN <<"form", "has_controls">>
        ELSE IF dn > 5 * dd /\ ~has_controls THEN <<"text", "high_density_no_controls">>
        ELSE IF column_count >= 2 /\ ~has_controls THEN <<"text", "multi_column">>
        ELSE IF 10 * al > 4 * n /\ 10 * wn < 6 * wd /\ dn < 5 * dd
             THEN <<"form", "grid_alignment">>
        ELSE IF 10 * wn > 7 * wd /\ 10 * dn > 5 * dd THEN <<"text", "prose_layout">>
        ELSE <<"form", "default">>

\* A classifier that measures density over the text's own extent instead of the
\* page area.
classify_by_content_extent(bs, cols, pw, ph, cc) ==
    IF bs = <<>> THEN [page_type |-> "text", signals |-> <<>>, reason |-> "no blocks"]
    ELSE LET extent == Max(1, bs[Len(bs)].bbox.x1 \div 100)
             d == DecidePageType(cc, ColumnCount(bs, cols),
                                 DensityNum(bs), DensityDen(extent, ph),
                                 WidthNum(bs, pw), WidthDen(bs, pw),
                                 AlignedBlocks(bs), Len(bs))
         IN  [page_type |-> d[1], signals |-> Signals(bs, cols, pw, ph, cc), reason |-> d[2]]

\* Lines 735-839.
classify_page_type(bs, cols, pw, ph, cc) ==
    IF bs = <<>> THEN [page_type |-> "text", signals |-> <<>>, reason |-> "no blocks"]
    ELSE LET d == DecidePageType(cc, ColumnCount(bs, cols),
                                 DensityNum(bs), DensityDen(pw, ph),
                                 WidthNum(bs, pw), WidthDen(bs, pw),
                                 AlignedBlocks(bs), Len(bs))
         IN  [page_type |-> d[1], signals |-> Signals(bs, cols, pw, ph, cc), reason |-> d[2]]

\* Inputs of the classifier.  A layout gives every x position (10pt apart) a run
\* of blocks, <<how many, width>>: none, one 30pt block, three 30pt blocks or three
\* 80pt blocks; a block at x = 4pt may come first.
MaxXPositions == 6
RunOptions    == { <<0, 3000>>, <<1, 3000>>, <<3, 3000>>, <<3, 8000>> }
ClassifyPages == { <<100, 100>>, <<200, 180>> }

MakeBlock(x, w) == [bbox |-> [x0 |-> x, y0 |-> 0, x1 |-> x + w, y1 |-> 1000]]

RunBlocks(x, opt) == [i \in 1..opt[1] |-> MakeBlock(x, opt[2])]

RECURSIVE LayoutBlocks(_, _)
LayoutBlocks(layout, p) ==
    IF p >= MaxXPositions THEN <<>>
    ELSE RunBlocks(1000 * p, layout[p]) \o LayoutBlocks(layout, p + 1)

NoCall == [blocks |-> <<>>, page_width |-> 0, page_height |-> 0, control_count |-> 0]

ClassifyInit ==
    /\ \E layout \in [0..(MaxXPositions - 1) -> RunOptions], first_x \in {0, 400} :
          blocks = (IF first_x = 0 THEN <<>> ELSE <<MakeBlock(first_x, 3000)>>)
                   \o LayoutBlocks(layout, 0)
    /\ columns \in {<<>>, DetectColumnsOfBlocks(blocks)}
    /\ \E pg \in ClassifyPages : page_width = pg[1] /\ page_height = pg[2]
    /\ control_count \in 0..2
    /\ classification = NoValue
    /\ callB = NoCall
    /\ classificationB = NoValue
    /\ cls_pc = "call"

ClassIdle ==
    /\ blocks = <<>>
    /\ columns = <<>>
    /\ page_width = 0
    /\ page_height = 0
    /\ control_count = 0
    /\ classification = NoValue
    /\ callB = NoCall
    /\ classificationB = NoValue
    /\ cls_pc = "idle"

\* One call of classify_page_type.
ClassifyPageType ==
    /\ cls_pc = "call"
    /\ cls_pc' = "done"
    /\ classification' = classify_page_type(blocks, columns, page_width, page_height, control_count)
    /\ UNCHANGED <<blocks, columns, page_width, page_height, control_count, callB, classificationB>>
    /\ UNCHANGED notClass

\* Two calls side by side.  Each call classifies up to MaxPairBlocks blocks of one
\* width, all starting at the same x, on a 100 x 100 pt page.
MaxPairBlocks == 3
PairWidths    == {3000, 5996, 6000, 8000}
PairStarts    == {0, 1000}

PairCalls ==
    { [blocks |-> [i \in 1..n |-> MakeBlock(x, w)], page_width |-> 100, page_height |-> 100,
       control_count |-> cc] :
        n \in 1..MaxPairBlocks, x \in PairStarts, w \in PairWidths, cc \in 0..2 }

PairInit ==
    /\ \E a \in PairCalls :
          /\ blocks = a.blocks
          /\ page_width = a.page_width
          /\ page_height = a.page_height
          /\ control_count = a.control_count
    /\ columns = DetectColumnsOfBlocks(blocks)
    /\ callB \in PairCalls
    /\ classification = NoValue
    /\ classificationB = NoValue
    /\ cls_pc = "call"

ClassifyPair ==
    /\ cls_pc = "call"
    /\ cls_pc' = "done"
    /\ classification' = classify_page_type(blocks, columns, page_width, page_height, control_count)
    /\ classificationB' = classify_page_type(callB.blocks, DetectColumnsOfBlocks(callB.blocks),
                                             callB.page_width, callB.page_height,
                                             callB.control_count)
    /\ UNCHANGED <<blocks, columns, page_width, page_height, control_count, callB>>
    /\ UNCHANGED notClass

----------------------------------------------------------------------------
(* Grid inference (extract_layout.py) *)

\* A row is a record with a blocks list sorted by x0.  Python's None is the empty
\* sequence <<>>, a present value v the one-element sequence <<v>>.  A cluster
\* centroid sum / len is kept as the pair <<sum, len>>.
GridTolerance == 1500

\* cluster_positions, lines 539-548, on the sorted positions.
RECURSIVE ClusterSorted(_, _)
ClusterSorted(xs, clusters) ==
    IF xs = <<>> THEN clusters
    ELSE LET last == clusters[Len(clusters)]
         IN  IF Abs(Head(xs) - last[Len(last)]) <= GridTolerance
             THEN ClusterSorted(Tail(xs),
                    [clusters EXCEPT ![Len(clusters)] = Append(last, Head(xs))])
             ELSE ClusterSorted(Tail(xs), Append(clusters, <<Head(xs)>>))

cluster_positions(xs) ==
    IF xs = <<>> THEN <<>>
    ELSE LET sorted == SortInts(xs)
             clusters == ClusterSorted(Tail(sorted), << <<Head(sorted)>> >>)
         IN  [i \in 1..Len(clusters) |-> <<SeqSum(clusters[i]), Len(clusters[i])>>]

\* Lines 566-573: every x0 and x1 of every block of every row of the group.
RECURSIVE AllX(_)
AllX(group_rows) ==
    IF group_rows = <<>> THEN <<>>
    ELSE LET bs == Head(group_rows).blocks
             RECURSIVE Edges(_)
             Edges(k) == IF k > Len(bs) THEN <<>>
                         ELSE <<bs[k].bbox.x0, bs[k].bbox.x1>> \o Edges(k + 1)
         IN  Edges(1) \o AllX(Tail(group_rows))

\* Lines 551-588: columns are the pairs of consecutive boundaries.
infer_grid_columns(group_rows) ==
    LET boundaries == cluster_positions(AllX(group_rows))
    IN  IF Len(boundaries) < 2 THEN <<>>
        ELSE [i \in 1..(Len(boundaries) - 1) |-> <<boundaries[i], boundaries[i + 1]>>]

\* Line 622: block_x0 < col_x1 and block_x1 > col_x0, the column's edges being
\* centroids.
OverlapsColumn(block, col) ==
    /\ block.bbox.x0 * col[2][2] < col[2][1]
    /\ block.bbox.x1 * col[1][2] > col[1][1]

\* The last overlapping column instead of the first.
EndCol(block, cols) ==
    LET hits == { i \in 1..Len(cols) : OverlapsColumn(block, cols[i]) }
    IN  IF hits = {} THEN 0 ELSE CHOOSE i \in hits : \A j \in hits : i >= j

\* Lines 617-625: the first overlapping column (1-based; 0 when there is none).
StartCol(block, cols) ==
    LET hits == { i \in 1..Len(cols) : OverlapsColumn(block, cols[i]) }
    IN  IF hits = {} THEN 0 ELSE CHOOSE i \in hits : \A j \in hits : i <= j

\* Lines 611-630: the blocks are placed one after the other into the cells.
RECURSIVE PlaceBlocks(_, _, _)
PlaceBlocks(bs, cols, row_cells) ==
    IF bs = <<>> THEN row_cells
    ELSE LET start_col == StartCol(Head(bs), cols)
         IN  PlaceBlocks(Tail(bs), cols,
                IF start_col = 0 THEN row_cells
                ELSE [row_cells EXCEPT ![start_col] = <<Head(bs)>>])

\* A mapping that appends each placed block instead of indexing a fixed-length
\* cell array.
map_row_by_append(row, cols) ==
    IF cols = <<>> THEN <<>>
    ELSE [i \in 1..Len(row.blocks) |-> <<row.blocks[i]>>]

\* Lines 591-632.
map_row_to_grid(row, cols) ==
    IF cols = <<>> THEN <<>>
    ELSE PlaceBlocks(row.blocks, cols, [i \in 1..Len(cols) |-> <<>>])

\* Line 655: the rows of the group; an index past the end is skipped.
RECURSIVE GroupRows(_, _)
GroupRows(rs, indices) ==
    IF indices = <<>> THEN <<>>
    ELSE (IF Head(indices) < Len(rs) THEN <<rs[Head(indices) + 1]>> ELSE <<>>)
         \o GroupRows(rs, Tail(indices))

\* Lines 635-681.  column_boundaries are rounded to 2 decimals.
apply_grid_to_row_group(rs, indices) ==
    IF indices = <<>> THEN <<>>
    ELSE LET group_rows == GroupRows(rs, indices)
             cols == infer_grid_columns(group_rows)
         IN  IF group_rows = <<>> \/ cols = <<>> THEN <<>>
             ELSE << [ columns |-> Len(cols),
                       column_boundaries |->
                           [i \in 1..Len(cols) |->
                               << RoundHalfEven(cols[i][1][1], cols[i][1][2]),
                                  RoundHalfEven(cols[i][2][1], cols[i][2][2]) >>],
                       rows |-> [k \in 1..Len(group_rows) |->
                                    [cells |-> map_row_to_grid(group_rows[k], cols)]] ] >>

\* Inputs: rows of up to MaxRowBlocks of the blocks below, left to right, on a
\* page of up to MaxPageRows rows; a group is a run of 2 or more consecutive rows.
MaxRowBlocks == 2
MaxPageRows  == 3
GridBlockSpans == << <<0, 400>>, <<0, 4000>>, <<1000, 6000>>, <<6000, 10000>> >>

RECURSIVE PickBlocks(_, _)
PickBlocks(chosen, k) ==
    IF k > Len(GridBlockSpans) THEN <<>>
    ELSE (IF k \in chosen
          THEN <<MakeBlock(GridBlockSpans[k][1], GridBlockSpans[k][2] - GridBlockSpans[k][1])>>
          ELSE <<>>) \o PickBlocks(chosen, k + 1)

GridRowInputs ==
    { [blocks |-> PickBlocks(chosen, 1)] :
        chosen \in { c \in SUBSET (1..Len(GridBlockSpans)) :
                        Cardinality(c) >= 1 /\ Cardinality(c) <= MaxRowBlocks } }

IndexRuns(n) ==
    { [k \in 1..(hi - lo + 1) |-> lo + k - 1] : lo \in 0..(n - 1), hi \in 1..(n - 1) } 

GridInit ==
    /\ rows \in UNION { [1..n -> GridRowInputs] : n \in 2..MaxPageRows }
    /\ row_indices \in { r \in IndexRuns(Len(rows)) : Len(r) >= 2 }
    /\ grid = <<>>
    /\ grid_pc = "call"

GridIdle ==
    /\ rows = <<>>
    /\ row_indices = <<>>
    /\ grid = <<>>
    /\ grid_pc = "idle"

\* apply_grid_to_row_group returns None: lines 651-664.
ApplyGridNone ==
    /\ grid_pc = "call"
    /\ apply_grid_to_row_group(rows, row_indices) = <<>>
    /\ grid_pc' = "done"
    /\ UNCHANGED <<rows, row_indices, grid>>
    /\ UNCHANGED notGrid

\* apply_grid_to_row_group returns a grid: lines 666-681.
ApplyGrid ==
    /\ grid_pc = "call"
    /\ apply_grid_to_row_group(rows, row_indices) # <<>>
    /\ grid' = apply_grid_to_row_group(rows, row_indices)
    /\ grid_pc' = "done"
    /\ UNCHANGED <<rows, row_indices>>
    /\ UNCHANGED notGrid

----------------------------------------------------------------------------
(* The control validity filter (combined_extractor.py) *)

\* A control's bbox is in raster pixels; sf is the scale factor in hundredths, so
\* a raster length p is p * 100 / sf points.  Block bboxes are hundredths of a
\* point and the page width is whole points.
MinSizePt      == 10
MinAligned     == 3
AlignTolerance == 5
MaxLabelGapPt  == 50
RowTolerancePt == 10

\* Lines 259-267: at least min_size_pt wide and high.
SizeValid(control, sf) ==
    /\ (control.bbox.x1 - control.bbox.x0) * 100 >= MinSizePt * sf
    /\ (control.bbox.y1 - control.bbox.y0) * 100 >= MinSizePt * sf

RECURSIVE SelectSeq2(_, _, _)
SelectSeq2(seq, Test(_, _), arg) ==
    IF seq = <<>> THEN <<>>
    ELSE (IF Test(Head(seq), arg) THEN <<Head(seq)>> ELSE <<>>)
         \o SelectSeq2(Tail(seq), Test, arg)

\* Lines 191-192, 196, 204: the centre in points is (x0 + x1) / 2 / sf, that is
\* CentreNum / sf; its bucket is round(centre / 5) * 5.
CentreXNum(control) == (control.bbox.x0 + control.bbox.x1) * 50
CentreYNum(control) == (control.bbox.y0 + control.bbox.y1) * 50
BucketX(control, sf) == RoundHalfEven(CentreXNum(control), AlignTolerance * sf) * AlignTolerance
BucketY(control, sf) == RoundHalfEven(CentreYNum(control), AlignTolerance * sf) * AlignTolerance

\* Lines 171-208.  left_margin_threshold is page_width * 0.05.
check_controls_aligned(ctrls, sf, pw) ==
    /\ Len(ctrls) >= MinAligned
    /\ LET x_positions == [i \in 1..Len(ctrls) |-> BucketX(ctrls[i], sf)]
           y_positions == [i \in 1..Len(ctrls) |-> BucketY(ctrls[i], sf)]
       IN  \/ \E i \in 1..Len(ctrls) :
                 /\ 20 * x_positions[i] >= pw
                 /\ CountOf(x_positions, x_positions[i]) >= MinAligned
           \/ \E i \in 1..Len(ctrls) : CountOf(y_positions, y_positions[i]) >= MinAligned

\* Lines 211-235.
has_label_to_left(control, bs, sf) ==
    \E k \in 1..Len(bs) :
        LET bb == bs[k].bbox
        IN  /\ Abs((bb.y0 + bb.y1) * sf - (control.bbox.y0 + control.bbox.y1) * 10000)
                  <= 2 * RowTolerancePt * 100 * sf
            /\ bb.x1 * sf < control.bbox.x0 * 10000
            /\ control.bbox.x0 * 10000 - bb.x1 * sf <= MaxLabelGapPt * 100 * sf

\* Lines 280-286 and 300-306: the centre lies in a block's bbox widened by 5pt to
\* the left and right and 2pt above and below.
IsInsideText(control, bs, sf) ==
    \E k \in 1..Len(bs) :
        LET bb == bs[k].bbox
        IN  /\ (bb.x0 - 500) * sf <= CentreXNum(control) * 100
            /\ CentreXNum(control) * 100 <= (bb.x1 + 500) * sf
            /\ (bb.y0 - 200) * sf <= CentreYNum(control) * 100
            /\ CentreYNum(control) * 100 <= (bb.y1 + 200) * sf

\* The bullet test with a left-margin band of 1% of the page width.
IsBulletLikeNarrowBand(control, bs, sf, pw) ==
    /\ 100 * CentreXNum(control) < pw * sf
    /\ ~has_label_to_left(control, bs, sf)

\* Lines 313-316.
IsBulletLike(control, bs, sf, pw) ==
    /\ 20 * CentreXNum(control) < pw * sf
    /\ ~has_label_to_left(control, bs, sf)

\* The filter without the grid-alignment override: the strict pass always.
filter_always_strict(raw, bs, sf, pw) ==
    LET size_valid == SelectSeq2(raw, SizeValid, sf)
        Strict(c, unused) == ~IsInsideText(c, bs, sf) /\ ~IsBulletLike(c, bs, sf, pw)
    IN  SelectSeq2(size_valid, Strict, 0)

\* Lines 238-324.
filter_valid_controls(raw, bs, sf, pw) ==
    LET size_valid == SelectSeq2(raw, SizeValid, sf)
        NotInText(c, unused) == ~IsInsideText(c, bs, sf)
        Strict(c, unused) == ~IsInsideText(c, bs, sf) /\ ~IsBulletLike(c, bs, sf, pw)
    IN  IF check_controls_aligned(size_valid, sf, pw)
        THEN SelectSeq2(size_valid, NotInText, 0)
        ELSE SelectSeq2(size_valid, Strict, 0)

\* Inputs.  Up to MaxSlots places on a 600pt-wide page, stacked 30pt apart
\* (vertical) or side by side 60pt apart on one line (horizontal).  A place
\* holds a control, alone or with a text block beside it:
\*   "label"   a 10pt control at x = 100pt and a block ending 5pt left of it
\*   "bare"    the same control without a block
\*   "near"    the same control and a block ending 3pt left of its centre
\*   "inline"  the same control and a block around its centre
\*   "small"   an 8pt control at x = 100pt
\*   "margin"  a 10pt control at x = 10pt, no block
\* The left-margin family has besides "bare" and "margin"
\*   "margin_label"  a 10pt control at x = 10pt and a block ending 1.5pt left
\*                   of its left edge
\*   "edge"          a 10pt control at x = 28pt, no block
MaxSlots     == 5
SlotOptions  == {"label", "bare", "near", "inline", "small", "margin"}
MarginOptions == {"bare", "margin", "margin_label", "edge"}
ScaleFactors == {200, 278}

SlotCentre(i, opt, layout) ==
    LET base == CASE opt \in {"margin", "margin_label"} -> 10
                  [] opt = "edge" -> 28
                  [] OTHER -> 100
    IN  IF layout = "vertical" THEN <<base, 100 + 30 * i>>
        ELSE <<base + 60 * (i - 1), 100>>

SlotControl(i, opt, layout, sf) ==
    LET c == SlotCentre(i, opt, layout)
        cx == RoundHalfEven(c[1] * sf, 100)
        cy == RoundHalfEven(c[2] * sf, 100)
        half == IF opt = "small" THEN (4 * sf) \div 100 ELSE (5 * sf + 99) \div 100
    IN  [type |-> "checkbox", confidence |-> 7,
         bbox |-> [x0 |-> cx - half, y0 |-> cy - half, x1 |-> cx + half, y1 |-> cy + half]]

SlotBlock(i, opt, layout) ==
    LET c == SlotCentre(i, opt, layout)
        x == CASE opt = "label"  -> <<c[1] * 100 - 4500, c[1] * 100 - 1000>>
               [] opt = "near"   -> <<c[1] * 100 - 4000, c[1] * 100 - 300>>
               [] opt = "margin_label" -> <<c[1] * 100 - 950, c[1] * 100 - 650>>
               [] OTHER          -> <<c[1] * 100 - 1000, c[1] * 100 + 1000>>
    IN  [bbox |-> [x0 |-> x[1], y0 |-> c[2] * 100 - 500, x1 |-> x[2], y1 |-> c[2] * 100 + 500]]

RECURSIVE SlotControls(_, _, _, _)
SlotControls(slots, i, layout, sf) ==
    IF i > Len(slots) THEN <<>>
    ELSE <<SlotControl(i, slots[i], layout, sf)>> \o SlotControls(slots, i + 1, layout, sf)

RECURSIVE SlotBlocks(_, _, _)
SlotBlocks(slots, i, layout) ==
    IF i > Len(slots) THEN <<>>
    ELSE (IF slots[i] \in {"label", "near", "inline", "margin_label"}
          THEN <<SlotBlock(i, slots[i], layout)>> ELSE <<>>)
         \o SlotBlocks(slots, i + 1, layout)

FilterInit ==
    /\ scale_factor \in ScaleFactors
    /\ \E slots \in UNION {[1..n -> SlotOptions] : n \in 0..MaxSlots}, layout \in {"vertical", "horizontal"} :
          /\ raw_controls = SlotControls(slots, 1, layout, scale_factor)
          /\ blocks = SlotBlocks(slots, 1, layout)
    /\ page_width = 600
    /\ valid_controls = <<>>
    /\ fv_pc = "call"
    /\ columns = <<>>
    /\ page_height = 0
    /\ control_count = 0
    /\ classification = NoValue
    /\ callB = NoCall
    /\ classificationB = NoValue
    /\ cls_pc = "idle"

\* The same call on the left-margin family.
MarginInit ==
    /\ scale_factor \in ScaleFactors
    /\ \E slots \in UNION {[1..n -> MarginOptions] : n \in 0..MaxSlots}, layout \in {"vertical", "horizontal"} :
          /\ raw_controls = SlotControls(slots, 1, layout, scale_factor)
          /\ blocks = SlotBlocks(slots, 1, layout)
    /\ page_width = 600
    /\ valid_controls = <<>>
    /\ fv_pc = "call"
    /\ columns = <<>>
    /\ page_height = 0
    /\ control_count = 0
    /\ classification = NoValue
    /\ callB = NoCall
    /\ classificationB = NoValue
    /\ cls_pc = "idle"

FilterIdle ==
    /\ raw_controls = <<>>
    /\ scale_factor = 100
    /\ valid_controls = <<>>
    /\ fv_pc = "idle"

\* Lines 270-290: the size-valid controls are grid-aligned.
FilterGridAligned ==
    /\ fv_pc = "call"
    /\ check_controls_aligned(SelectSeq2(raw_controls, SizeValid, scale_factor),
                              scale_factor, page_width)
    /\ valid_controls' = filter_valid_controls(raw_controls, blocks, scale_factor, page_width)
    /\ fv_pc' = "done"
    /\ UNCHANGED <<raw_controls, scale_factor, classVars>>
    /\ UNCHANGED notFilter

\* Lines 292-324: no grid alignment, the stricter filter.
FilterStrict ==
    /\ fv_pc = "call"
    /\ ~check_controls_aligned(SelectSeq2(raw_controls, SizeValid, scale_factor),
                               scale_factor, page_width)
    /\ valid_controls' = filter_valid_controls(raw_controls, blocks, scale_factor, page_width)
    /\ fv_pc' = "done"
    /\ UNCHANGED <<raw_controls, scale_factor, classVars>>
    /\ UNCHANGED notFilter

----------------------------------------------------------------------------
(* Rows and row groups (extract_layout.py) *)

\* A block of a page carries, besides its bbox, its id, the length of its text,
\* the marker its text starts with ("bullet", "number" or "none"), its bold flag
\* and its font size in hundredths of a point.
YTolerance       == 300
DefaultMedian    == 1000
ShortTextLen     == 20
LongTextLen      == 100
NarrowBlockWidth == 2000
GroupXTolerance  == 1000

YSum(b) == b.bbox.y0 + b.bbox.y1

RECURSIVE MinOver(_, _, _)
MinOver(s, F(_), best) ==
    IF s = <<>> THEN best ELSE MinOver(Tail(s), F, Min(best, F(Head(s))))

RECURSIVE MaxOver(_, _, _)
MaxOver(s, F(_), best) ==
    IF s = <<>> THEN best ELSE MaxOver(Tail(s), F, Max(best, F(Head(s))))

BlockX0(b) == b.bbox.x0
BlockX1(b) == b.bbox.x1
BlockY0(b) == b.bbox.y0
BlockY1(b) == b.bbox.y1

MinX0(bs) == MinOver(Tail(bs), BlockX0, BlockX0(Head(bs)))
MaxX1(bs) == MaxOver(Tail(bs), BlockX1, BlockX1(Head(bs)))
MinY0(bs) == MinOver(Tail(bs), BlockY0, BlockY0(Head(bs)))
MaxY1(bs) == MaxOver(Tail(bs), BlockY1, BlockY1(Head(bs)))

\* list.sort(key=x0) is stable: a block goes after the blocks with the same x0.
RECURSIVE InsertByX0(_, _)
InsertByX0(s, b) ==
    IF s = <<>> THEN <<b>>
    ELSE IF Head(s).bbox.x0 <= b.bbox.x0 THEN <<Head(s)>> \o InsertByX0(Tail(s), b)
    ELSE <<b>> \o s

RECURSIVE SortByX0(_)
SortByX0(s) ==
    IF s = <<>> THEN <<>>
    ELSE InsertByX0(SortByX0(SubSeq(s, 1, Len(s) - 1)), s[Len(s)])

\* The record r with the field name set to v.
WithField(r, name, v) ==
    [f \in DOMAIN r \cup {name} |-> IF f = name THEN v ELSE r[f]]

\* Lines 209-214 and 220-225.
TextRow(current_row) ==
    [blocks |-> SortByX0(current_row), y_min |-> MinY0(current_row), y_max |-> MaxY1(current_row)]

\* Lines 197-216: the running centre is the mean of the centres of the row so
\* far, SeqSum(YSum) / (2 * len).
RECURSIVE GroupIntoRowsFrom(_, _, _)
GroupIntoRowsFrom(bs, current_row, acc) ==
    IF bs = <<>> THEN Append(acc, TextRow(current_row))
    ELSE LET n == Len(current_row)
             s == SeqSum([i \in 1..n |-> YSum(current_row[i])])
         IN  IF Abs(YSum(Head(bs)) * n - s) <= 2 * YTolerance * n
             THEN GroupIntoRowsFrom(Tail(bs), Append(current_row, Head(bs)), acc)
             ELSE GroupIntoRowsFrom(Tail(bs), <<Head(bs)>>, Append(acc, TextRow(current_row)))

\* Lines 182-227.
group_into_rows(bs) ==
    IF bs = <<>> THEN <<>> ELSE GroupIntoRowsFrom(Tail(bs), <<Head(bs)>>, <<>>)

\* Lines 718-732; the empty dict is the empty record.
compute_stats(bs) ==
    IF bs = <<>> THEN <<>>
    ELSE LET font_sizes == SortInts([i \in 1..Len(bs) |-> bs[i].font_size])
         IN  [ median_font_size |-> font_sizes[(Len(bs) \div 2) + 1],
               min_font_size    |-> font_sizes[1],
               max_font_size    |-> font_sizes[Len(bs)],
               total_blocks     |-> Len(bs) ]

\* Lines 230-312.
classify_row(row, pw, median_font_size) ==
    LET bs == row.blocks
        num_blocks == Len(bs)
        has_bullet == \E i \in 1..num_blocks : bs[i].marker = "bullet"
        has_number == \E i \in 1..num_blocks : bs[i].marker = "number"
        is_bold == bs[1].is_bold
        is_large == bs[1].font_size * 10 > median_font_size * 11
        is_full_width == MaxX1(bs) - MinX0(bs) > pw * 70
        short == Cardinality({ i \in 1..num_blocks : bs[i].text_len < ShortTextLen })
    IN  IF num_blocks = 0 THEN "empty"
        ELSE IF num_blocks = 1
        THEN (IF has_bullet THEN "bullet-item"
              ELSE IF has_number THEN "numbered-item"
              ELSE IF is_bold \/ is_large THEN "header"
              ELSE IF bs[1].text_len > LongTextLen THEN "paragraph"
              ELSE "label")
        ELSE IF has_bullet THEN "bullet-list"
        ELSE IF has_number /\ 2 * short > num_blocks THEN "option-row"
        ELSE IF num_blocks >= 3 /\ 5 * short > 3 * num_blocks THEN "option-row"
        ELSE IF num_blocks = 2
        THEN (IF bs[1].text_len > bs[2].text_len * 2 THEN "label-value" ELSE "label-pair")
        ELSE IF is_full_width /\ num_blocks <= 2 THEN "paragraph"
        ELSE "mixed"

\* Lines 315-322.
classify_rows(rs, pw, stats) ==
    LET median_font_size ==
            IF "median_font_size" \in DOMAIN stats THEN stats.median_font_size
            ELSE DefaultMedian
    IN  [i \in 1..Len(rs) |-> WithField(rs[i], "type", classify_row(rs[i], pw, median_font_size))]

\* Lines 684-715 on the rows of a page.
RECURSIVE RowStarts(_)
RowStarts(rs) ==
    IF rs = <<>> THEN <<>> ELSE BlockStarts(Head(rs).blocks) \o RowStarts(Tail(rs))

detect_columns(rs) == ClusterStarts(SortInts(RowStarts(rs)), <<>>, <<>>)

\* Lines 379-390.
CompatibleTypes(t) ==
    CASE t \in {"label-value", "label-pair", "mixed"} -> {"label-value", "label-pair", "mixed"}
      [] t = "option-row"    -> {"option-row"}
      [] t = "bullet-item"   -> {"bullet-item"}
      [] t = "bullet-list"   -> {"bullet-list", "bullet-item"}
      [] t = "numbered-item" -> {"numbered-item"}
      [] t = "label"         -> {"label", "label-value"}
      [] OTHER               -> {}

RowWidth(bs) == IF bs = <<>> THEN 0 ELSE MaxX1(bs) - MinX0(bs)

\* Lines 325-401, with x_tolerance = 10 and width_tolerance = 0.15.
can_group_rows(row1, row2) ==
    LET blocks1 == row1.blocks
        blocks2 == row2.blocks
        count_diff == Abs(Len(blocks1) - Len(blocks2))
        extra_blocks == IF Len(blocks1) > Len(blocks2) THEN blocks1 ELSE blocks2
        width1 == RowWidth(blocks1)
        width2 == RowWidth(blocks2)
    IN  /\ count_diff <= 1
        /\ count_diff = 1 =>
              \E i \in 1..Len(extra_blocks) :
                  extra_blocks[i].bbox.x1 - extra_blocks[i].bbox.x0 < NarrowBlockWidth
        /\ (blocks1 # <<>> /\ blocks2 # <<>>) =>
              Abs(blocks1[1].bbox.x0 - blocks2[1].bbox.x0) <= GroupXTolerance
        /\ (width1 > 0 /\ width2 > 0 /\ ~(Len(blocks1) = 1 /\ Len(blocks2) = 1)) =>
              Min(width1, width2) * 100 >= 85 * Max(width1, width2)
        /\ \/ row2.type \in CompatibleTypes(row1.type)
           \/ row1.type \in CompatibleTypes(row2.type)
           \/ row1.type = row2.type

\* Lines 404-435.
infer_group_hint(rs) ==
    LET types == [i \in 1..Len(rs) |-> rs[i].type]
        all(set) == \A i \in 1..Len(rs) : types[i] \in set
    IN  IF rs = <<>> THEN "unknown"
        ELSE IF all({"option-row"}) THEN "options"
        ELSE IF all({"bullet-item", "bullet-list"}) THEN "list"
        ELSE IF all({"numbered-item"}) THEN "list"
        ELSE IF all({"label-value", "label-pair", "mixed"})
        THEN (IF SeqSum([i \in 1..Len(rs) |-> Len(rs[i].blocks)]) >= 2 * Len(rs)
              THEN "grid" ELSE "stack")
        ELSE "grid"

\* A finalisation that asks for 2 rows whatever the hint.
FinalizeGroupMinTwo(rs, current_group, groups) ==
    LET hint == infer_group_hint([k \in 1..Len(current_group) |-> rs[current_group[k] + 1]])
    IN  IF Len(current_group) >= 2
        THEN Append(groups, [ id |-> Len(groups), row_indices |-> current_group,
                              hint |-> hint, row_count |-> Len(current_group) ])
        ELSE groups

\* Lines 461-484 and 489-506: the run current_group (0-based row indices) becomes
\* a group when it has 2 rows, 3 for the hint grid.
FinalizeGroup(rs, current_group, groups) ==
    LET hint == infer_group_hint([k \in 1..Len(current_group) |-> rs[current_group[k] + 1]])
        min_size == IF hint = "grid" THEN 3 ELSE 2
    IN  IF Len(current_group) >= 2 /\ Len(current_group) >= min_size
        THEN Append(groups, [ id |-> Len(groups), row_indices |-> current_group,
                              hint |-> hint, row_count |-> Len(current_group) ])
        ELSE groups

\* Lines 457-486.
RECURSIVE GroupFrom(_, _, _, _)
GroupFrom(rs, i, current_group, groups) ==
    IF i > Len(rs) THEN FinalizeGroup(rs, current_group, groups)
    ELSE IF can_group_rows(rs[current_group[Len(current_group)] + 1], rs[i])
         THEN GroupFrom(rs, i + 1, Append(current_group, i - 1), groups)
         ELSE GroupFrom(rs, i + 1, <<i - 1>>, FinalizeGroup(rs, current_group, groups))

\* Lines 438-508.
group_consecutive_rows(rs) ==
    IF Len(rs) < 2 THEN <<>> ELSE GroupFrom(rs, 2, <<0>>, <<>>)

----------------------------------------------------------------------------
(* extract_combined (combined_extractor.py) *)

\* Lines 44-65: the blocks whose y centre lies in the band, left to right.  A
\* band edge y px is y * 100 / sf points.
BandRow(bs, band, sf) ==
    LET InBand(b, unused) ==
            /\ band.y0 * 20000 <= YSum(b) * sf
            /\ YSum(b) * sf <= band.y1 * 20000
        band_blocks == SelectSeq2(bs, InBand, 0)
    IN  IF band_blocks = <<>> THEN <<>>
        ELSE << [ blocks |-> SortByX0(band_blocks),
                  y_min  |-> RoundHalfEven(band.y0 * 10000, sf),
                  y_max  |-> RoundHalfEven(band.y1 * 10000, sf),
                  source |-> "visual_band" ] >>

RECURSIVE BandRows(_, _, _)
BandRows(bs, bands, sf) ==
    IF bands = <<>> THEN <<>>
    ELSE BandRow(bs, Head(bands), sf) \o BandRows(bs, Tail(bands), sf)

\* A variant that keeps a row for every band, populated or not.
assign_every_band(bs, bands, sf) ==
    [k \in 1..Len(bands) |->
        LET r == BandRow(bs, bands[k], sf)
        IN  IF r # <<>> THEN r[1]
            ELSE [ blocks |-> <<>>,
                   y_min  |-> RoundHalfEven(bands[k].y0 * 10000, sf),
                   y_max  |-> RoundHalfEven(bands[k].y1 * 10000, sf),
                   source |-> "visual_band" ]]

\* Lines 24-67.  The result is None or a non-empty list, so None is the empty
\* sequence here.
assign_blocks_to_bands(bs, bands, sf) == BandRows(bs, bands, sf)

\* Lines 152-168: aspect_ratio in hundredths, the sizes in tenths of a point.
compute_control_features(control, sf) ==
    LET w == control.bbox.x1 - control.bbox.x0
        h == control.bbox.y1 - control.bbox.y0
    IN  [ width_px |-> w, height_px |-> h,
          aspect_ratio |-> IF h > 0 THEN RoundHalfEven(w * 100, h) ELSE 100,
          width_pt  |-> RoundHalfEven(w * 1000, sf),
          height_pt |-> RoundHalfEven(h * 1000, sf) ]

\* Lines 121-133: the block left of the control on its line at the smallest
\* positive distance, the first one on a tie; 0 when there is none.  The distance
\* to block k is (x0 * 10000 - bs[k].x1 * sf) / sf.
LabelDistance(control, b, sf) == control.bbox.x0 * 10000 - b.bbox.x1 * sf

LabelCandidates(control, bs, sf) ==
    { k \in 1..Len(bs) :
        /\ bs[k].bbox.x1 * sf < control.bbox.x0 * 10000 + 2000 * sf
        /\ Abs(bs[k].bbox.y0 * sf - control.bbox.y0 * 10000) < 1500 * sf
        /\ LabelDistance(control, bs[k], sf) > 0 }

BestBlock(control, bs, sf) ==
    LET cands == LabelCandidates(control, bs, sf)
    IN  IF cands = {} THEN 0
        ELSE CHOOSE k \in cands :
                \A j \in cands :
                    \/ LabelDistance(control, bs[k], sf) < LabelDistance(control, bs[j], sf)
                    \/ (LabelDistance(control, bs[k], sf) = LabelDistance(control, bs[j], sf)
                        /\ k <= j)

\* map_controls_to_blocks with pdf_bbox rounded to 1 decimal.
MapControlOneDecimal(control, bs, sf) ==
    LET best == BestBlock(control, bs, sf)
        mapped == WithField(control, "pdf_bbox",
                      [ x0 |-> 10 * RoundHalfEven(control.bbox.x0 * 1000, sf),
                        y0 |-> 10 * RoundHalfEven(control.bbox.y0 * 1000, sf),
                        x1 |-> 10 * RoundHalfEven(control.bbox.x1 * 1000, sf),
                        y1 |-> 10 * RoundHalfEven(control.bbox.y1 * 1000, sf) ])
    IN  IF best = 0 THEN mapped ELSE WithField(mapped, "label_block_id", bs[best].id)

\* Lines 98-149.  pdf_bbox is rounded to 2 decimals.
MapControl(control, bs, sf) ==
    LET best == BestBlock(control, bs, sf)
        mapped == WithField(control, "pdf_bbox",
                      [ x0 |-> RoundHalfEven(control.bbox.x0 * 10000, sf),
                        y0 |-> RoundHalfEven(control.bbox.y0 * 10000, sf),
                        x1 |-> RoundHalfEven(control.bbox.x1 * 10000, sf),
                        y1 |-> RoundHalfEven(control.bbox.y1 * 10000, sf) ])
    IN  IF best = 0 THEN mapped ELSE WithField(mapped, "label_block_id", bs[best].id)

map_controls_to_blocks(ctrls, bs, sf) ==
    [i \in 1..Len(ctrls) |-> MapControl(ctrls[i], bs, sf)]

\* Lines 403-406.
WithGrid(rs, group) ==
    LET g == apply_grid_to_row_group(rs, group.row_indices)
    IN  IF g = <<>> THEN group ELSE WithField(group, "grid", g[1])

\* A histogram that counts every type that occurs once.
RowTypesOnce(rs) == [t \in { rs[i].type : i \in 1..Len(rs) } |-> 1]

\* Lines 447-452: the number of rows of every type that occurs.
RowTypes(rs) ==
    [t \in { rs[i].type : i \in 1..Len(rs) } |->
        Cardinality({ i \in 1..Len(rs) : rs[i].type = t })]

\* Lines 383-396.  <<rows, row_source>>.
ChooseRows(visual_rows, text_rows, pw, stats) ==
    IF Len(visual_rows) >= 3
    THEN <<classify_rows(visual_rows, pw, stats), "visual_bands">>
    ELSE <<text_rows, "text_y_proximity">>

\* Lines 380-452.  table_borders and visual_sections, which are copied from the
\* detector's output, are left out of the record.
FormRecord(pn, cls, bs, cols, pw, ph, stats, text_rows, bands, sf, valid) ==
    LET chosen == ChooseRows(assign_blocks_to_bands(bs, bands, sf), text_rows, pw, stats)
        rs == chosen[1]
        groups == group_consecutive_rows(rs)
        row_groups == [g \in 1..Len(groups) |-> WithGrid(rs, groups[g])]
        all_controls == [i \in 1..Len(valid) |->
                            WithField(valid[i], "features", compute_control_features(valid[i], sf))]
        mapped_controls == map_controls_to_blocks(all_controls, bs, sf)
    IN  [ page_number    |-> pn,
          page_type      |-> cls.page_type,
          classification |-> cls,
          dimensions     |-> [width |-> pw, height |-> ph],
          text     |-> [ blocks |-> bs, rows |-> <<rs>>, row_source |-> chosen[2],
                         row_groups |-> <<row_groups>>, columns |-> cols, stats |-> stats ],
          controls |-> [ items |-> mapped_controls, scale_factor |-> sf ],
          summary  |-> [ total_blocks |-> Len(bs), total_rows |-> Len(rs),
                         total_row_groups |-> Len(row_groups),
                         total_controls |-> Len(mapped_controls),
                         row_types |-> <<RowTypes(rs)>> ] ]

\* Lines 454-482.
TextRecord(pn, cls, bs, cols, pw, ph, stats, sf) ==
    [ page_number    |-> pn,
      page_type      |-> cls.page_type,
      classification |-> cls,
      dimensions     |-> [width |-> pw, height |-> ph],
      text     |-> [ blocks |-> bs, rows |-> <<>>, row_groups |-> <<>>,
                     columns |-> cols, stats |-> stats ],
      controls |-> [ items |-> <<>>, scale_factor |-> sf ],
      summary  |-> [ total_blocks |-> Len(bs), total_rows |-> 0, total_row_groups |-> 0,
                     total_controls |-> 0, row_types |-> <<>>,
                     note |-> "Row grouping skipped for text page" ] ]

\* Line 348.
ErrorRecord == [error |-> "No pages extracted"]

\* Line 380.  A branch test that also sends a page with a control down the form
\* branch comes first.
IsFormPageOrHasControl(cls) ==
    \/ cls.page_type = "form"
    \/ (cls.signals # <<>> /\ cls.signals.control_count >= 1)

IsFormPage(cls) == cls.page_type = "form"

\* Inputs.  The document has one page, 200 x 180 pt, with up to MaxLines lines of
\* text 30pt apart; all text is 10pt.  A line is blank or holds
\*   "para"    one block x 20-170pt, 120 characters
\*   "label"   one block x 20-60pt, 10 characters
\*   "pair"    a block x 20-60pt, 10 characters, and one x 80-130pt, 4 characters
\*   "bullet"  one block x 20-60pt that starts with a bullet
\*   "header"  one bold block x 20-90pt
\* The detector reports checkboxes, 10pt wide, at x = 185pt on the first lines,
\* radio buttons and input boxes or none of either,
\* and row bands: none, a band around every line position (a band around a blank
\* line holds no text), or these with the first two merged into one.  The page
\* may end with a footer, one 1-character block of 4pt print at y = 170pt; its
\* ink is lower than detect_row_bands' min_row_height, so no band covers it.
MaxLines    == 3
LineKinds   == {"blank", "para", "label", "pair", "bullet", "header"}
BandPlans   == {"none", "each", "merged"}
\* The detector also reports no radio button and input box, or one of each on
\* every line.
OtherCounts == {0, MaxLines}
PageNumbers == 0..2

TextBlock(i, x0, x1, len, marker, bold) ==
    [ bbox |-> [x0 |-> x0, y0 |-> 3000 * i - 500, x1 |-> x1, y1 |-> 3000 * i + 500],
      text_len |-> len, marker |-> marker, is_bold |-> bold, font_size |-> 1000 ]

LineBlocks(i, kind) ==
    CASE kind = "para"   -> <<TextBlock(i, 2000, 17000, 120, "none", FALSE)>>
      [] kind = "label"  -> <<TextBlock(i, 2000, 6000, 10, "none", FALSE)>>
      [] kind = "pair"   -> <<TextBlock(i, 2000, 6000, 10, "none", FALSE),
                              TextBlock(i, 8000, 13000, 4, "none", FALSE)>>
      [] kind = "bullet" -> <<TextBlock(i, 2000, 6000, 10, "bullet", FALSE)>>
      [] kind = "header" -> <<TextBlock(i, 2000, 9000, 10, "none", TRUE)>>
      [] OTHER           -> <<>>

RECURSIVE PageBlocks(_, _)
PageBlocks(kinds, i) ==
    IF i > Len(kinds) THEN <<>> ELSE LineBlocks(i, kinds[i]) \o PageBlocks(kinds, i + 1)

FooterBlocks(present) ==
    IF present
    THEN << [ bbox |-> [x0 |-> 9800, y0 |-> 16800, x1 |-> 10200, y1 |-> 17200],
              text_len |-> 1, marker |-> "none", is_bold |-> FALSE, font_size |-> 400 ] >>
    ELSE <<>>

\* Lines 133-134: ids are the positions in the sorted list, from 0.
WithIds(bs) == [i \in 1..Len(bs) |-> WithField(bs[i], "id", i - 1)]

LineControl(i, sf) ==
    LET cx == RoundHalfEven(185 * sf, 100)
        cy == RoundHalfEven(30 * i * sf, 100)
        half == (5 * sf + 99) \div 100
    IN  [ type |-> "checkbox", confidence |-> 7,
          bbox |-> [x0 |-> cx - half, y0 |-> cy - half, x1 |-> cx + half, y1 |-> cy + half] ]

LineBand(i, j, sf) ==
    [y0 |-> ((30 * i - 8) * sf) \div 100, y1 |-> ((30 * j + 8) * sf + 99) \div 100]

PlanBands(plan, sf) ==
    CASE plan = "each"   -> [i \in 1..MaxLines |-> LineBand(i, i, sf)]
      [] plan = "merged" -> <<LineBand(1, 2, sf)>> \o [i \in 1..(MaxLines - 2) |-> LineBand(i + 2, i + 2, sf)]
      [] OTHER           -> <<>>

\* detect_controls.py lines 202-211 and 271-277: a radio button of radius 5pt at
\* the place of LineControl(i, sf), and an input box 55 x 14pt that ends there.
LineRadio(i, sf) ==
    LET cx == RoundHalfEven(185 * sf, 100)
        cy == RoundHalfEven(30 * i * sf, 100)
        r  == (5 * sf + 99) \div 100
    IN  [ type |-> "radio", confidence |-> 8, selected |-> FALSE,
          center |-> [x |-> cx, y |-> cy], radius |-> r,
          bbox |-> [x0 |-> cx - r, y0 |-> cy - r, x1 |-> cx + r, y1 |-> cy + r] ]

LineInput(i, sf) ==
    [ type |-> "input", confidence |-> 9,
      bbox |-> [ x0 |-> (140 * sf) \div 100, y0 |-> ((30 * i - 7) * sf) \div 100,
                 x1 |-> (195 * sf) \div 100, y1 |-> ((30 * i + 7) * sf) \div 100 ] ]

\* detect_controls.py lines 998-1002: the detections by kind.
NoDetections == [checkboxes |-> <<>>, radio_buttons |-> <<>>, input_boxes |-> <<>>]

\* Every kind of detection taken as a control.
RawControlsOfEveryKind(found) == found.checkboxes \o found.radio_buttons \o found.input_boxes

\* Line 366.
RawControls(found) == found.checkboxes

NoRecord == <<>>

ExtractInit ==
    /\ page_num \in PageNumbers
    /\ \E kinds \in [1..MaxLines -> LineKinds], footer \in BOOLEAN :
          doc_page = [width |-> 200, height |-> 180,
                      blocks |-> WithIds(PageBlocks(kinds, 1) \o FooterBlocks(footer))]
    /\ layout_rows = <<>>
    /\ temp_file = "none"
    /\ row_bands = <<>>
    /\ detections = NoDetections
    /\ stages = {}
    /\ result = NoRecord
    /\ ex_pc = "start"

ExtractIdle ==
    /\ page_num = 0
    /\ doc_page = [width |-> 0, height |-> 0, blocks |-> <<>>]
    /\ layout_rows = <<>>
    /\ temp_file = "none"
    /\ row_bands = <<>>
    /\ detections = NoDetections
    /\ stages = {}
    /\ result = NoRecord
    /\ ex_pc = "idle"

PageState == <<blocks, columns, page_width, page_height, layout_rows>>
Detected  == <<raw_controls, scale_factor, row_bands, detections>>
Verdict   == <<valid_controls, control_count, classification>>
Untouched == <<page_num, doc_page, callB, classificationB, cls_pc, fv_pc>>

\* extract_pdf lines 863-865 and extract_combined lines 346-348: no page has the
\* index asked for.
ExtractPdfNoPage ==
    /\ ex_pc = "start"
    /\ page_num # 1
    /\ stages' = stages \cup {"extract_pdf"}
    /\ result' = ErrorRecord
    /\ ex_pc' = "returned"
    /\ UNCHANGED <<PageState, Detected, Verdict, Untouched, temp_file>>
    /\ UNCHANGED notExtract

\* extract_pdf lines 867-897 and extract_combined lines 346-353.
ExtractPdfPage ==
    /\ ex_pc = "start"
    /\ page_num = 1
    /\ blocks' = doc_page.blocks
    /\ page_width' = doc_page.width
    /\ page_height' = doc_page.height
    /\ layout_rows' = classify_rows(group_into_rows(doc_page.blocks), doc_page.width,
                                    compute_stats(doc_page.blocks))
    /\ columns' = detect_columns(layout_rows')
    /\ stages' = stages \cup {"extract_pdf", "group_into_rows", "classify_rows", "detect_columns"}
    /\ ex_pc' = "render"
    /\ UNCHANGED <<Detected, Verdict, Untouched, temp_file, result>>
    /\ UNCHANGED notExtract

\* render_page_to_image lines 82-91: opening the document, indexing the page,
\* rendering the pixmap or creating the file raises; no file has been created.
RenderFailsBeforeFile ==
    /\ ex_pc = "render"
    /\ stages' = stages \cup {"render_page_to_image"}
    /\ ex_pc' = "raised"
    /\ UNCHANGED <<PageState, Detected, Verdict, Untouched, temp_file, result>>
    /\ UNCHANGED notExtract

\* Lines 82-91: NamedTemporaryFile(delete=False) creates the file.
RenderCreateFile ==
    /\ ex_pc = "render"
    /\ stages' = stages \cup {"render_page_to_image"}
    /\ temp_file' = "exists"
    /\ ex_pc' = "save"
    /\ UNCHANGED <<PageState, Detected, Verdict, Untouched, result>>
    /\ UNCHANGED notExtract

\* Line 92: pix.save raises; the exception leaves render_page_to_image and
\* extract_combined, neither of which handles it.
RenderSaveFails ==
    /\ ex_pc = "save"
    /\ ex_pc' = "raised"
    /\ UNCHANGED <<PageState, Detected, Verdict, Untouched, temp_file, stages, result>>
    /\ UNCHANGED notExtract

\* Line 92.
RenderSave ==
    /\ ex_pc = "save"
    /\ ex_pc' = "close"
    /\ UNCHANGED <<PageState, Detected, Verdict, Untouched, temp_file, stages, result>>
    /\ UNCHANGED notExtract

\* Line 94: doc.close raises.
RenderCloseFails ==
    /\ ex_pc = "close"
    /\ ex_pc' = "raised"
    /\ UNCHANGED <<PageState, Detected, Verdict, Untouched, temp_file, stages, result>>
    /\ UNCHANGED notExtract

\* Lines 94-95 and 356.
RenderReturn ==
    /\ ex_pc = "close"
    /\ ex_pc' = "detect"
    /\ UNCHANGED <<PageState, Detected, Verdict, Untouched, temp_file, stages, result>>
    /\ UNCHANGED notExtract

\* Lines 358-363: detect_all_controls raises (line 951, the image cannot be
\* loaded); the finally clause unlinks the file and the exception propagates.
DetectFails ==
    /\ ex_pc = "detect"
    /\ stages' = stages \cup {"detect_all_controls"}
    /\ temp_file' = "deleted"
    /\ ex_pc' = "raised"
    /\ UNCHANGED <<PageState, Detected, Verdict, Untouched, result>>
    /\ UNCHANGED notExtract

\* Lines 358-366 and 384: the detector returns, the file is unlinked, and the
\* checkboxes, the reported scale factor and the row bands are taken from its
\* output.
DetectReturn ==
    /\ ex_pc = "detect"
    /\ \E sf \in ScaleFactors, k \in 0..MaxLines, others \in OtherCounts, plan \in BandPlans :
          /\ scale_factor' = sf
          /\ detections' = [ checkboxes    |-> [i \in 1..k |-> LineControl(i, sf)],
                             radio_buttons |-> [i \in 1..others |-> LineRadio(i, sf)],
                             input_boxes   |-> [i \in 1..others |-> LineInput(i, sf)] ]
          /\ row_bands' = PlanBands(plan, sf)
    /\ raw_controls' = RawControls(detections')
    /\ stages' = stages \cup {"detect_all_controls"}
    /\ temp_file' = "deleted"
    /\ ex_pc' = "filter"
    /\ UNCHANGED <<PageState, Verdict, Untouched, result>>
    /\ UNCHANGED notExtract

\* Lines 369-377.
FilterAndClassify ==
    /\ ex_pc = "filter"
    /\ valid_controls' = filter_valid_controls(raw_controls, blocks, scale_factor, page_width)
    /\ control_count' = Len(valid_controls')
    /\ classification' = classify_page_type(blocks, columns, page_width, page_height,
                                            control_count')
    /\ stages' = stages \cup {"filter_valid_controls", "classify_page_type"}
    /\ ex_pc' = "branch"
    /\ UNCHANGED <<PageState, Detected, Untouched, temp_file, result>>
    /\ UNCHANGED notExtract

\* The functions the form branch calls, lines 385-415.
FormStages(rec) ==
    {"assign_blocks_to_bands", "group_consecutive_rows", "map_controls_to_blocks"}
    \cup (IF rec.text.row_source = "visual_bands" THEN {"classify_visual_rows"} ELSE {})
    \cup (IF rec.text.row_groups[1] # <<>> THEN {"apply_grid_to_row_group"} ELSE {})
    \cup (IF rec.controls.items # <<>> THEN {"compute_control_features"} ELSE {})

\* Lines 380-452 and 484.
FormBranch ==
    /\ ex_pc = "branch"
    /\ IsFormPage(classification)
    /\ result' = FormRecord(page_num, classification, blocks, columns, page_width, page_height,
                            compute_stats(blocks), layout_rows, row_bands, scale_factor,
                            valid_controls)
    /\ stages' = stages \cup FormStages(result')
    /\ ex_pc' = "returned"
    /\ UNCHANGED <<PageState, Detected, Verdict, Untouched, temp_file>>
    /\ UNCHANGED notExtract

\* Lines 454-484.
TextBranch ==
    /\ ex_pc = "branch"
    /\ ~IsFormPage(classification)
    /\ result' = TextRecord(page_num, classification, blocks, columns, page_width, page_height,
                            compute_stats(blocks), scale_factor)
    /\ UNCHANGED stages
    /\ ex_pc' = "returned"
    /\ UNCHANGED <<PageState, Detected, Verdict, Untouched, temp_file>>
    /\ UNCHANGED notExtract

----------------------------------------------------------------------------
(* detect_row_bands (detect_controls.py) *)

\* The thresholded projection (lines 343-356) is an input: is_content[y + 1] says
\* whether pixel row y holds content.  A band is [y0, y1], y1 exclusive.

\* Lines 363-381: the maximal runs of content rows, top to bottom; the run that
\* reaches the last row ends at len(is_content).
RECURSIVE ContentRuns(_, _, _, _)
ContentRuns(content, y, start_y, acc) ==
    IF y >= Len(content)
    THEN IF start_y >= 0 THEN Append(acc, [y0 |-> start_y, y1 |-> Len(content)]) ELSE acc
    ELSE IF content[y + 1] /\ start_y < 0 THEN ContentRuns(content, y + 1, y, acc)
    ELSE IF ~content[y + 1] /\ start_y >= 0
         THEN ContentRuns(content, y + 1, -1, Append(acc, [y0 |-> start_y, y1 |-> y]))
    ELSE ContentRuns(content, y + 1, start_y, acc)

\* Lines 371-373 and 379-381.
TallEnough(band, h) == band.y1 - band.y0 >= h

\* Lines 384-393.
RECURSIVE MergeClose(_, _, _)
MergeClose(bs, merged, gap) ==
    IF bs = <<>> THEN merged
    ELSE LET last == merged[Len(merged)]
         IN  IF Head(bs).y0 - last.y1 < gap
             THEN MergeClose(Tail(bs), [merged EXCEPT ![Len(merged)].y1 = Head(bs).y1], gap)
             ELSE MergeClose(Tail(bs), Append(merged, Head(bs)), gap)

MergeBands(bs, gap) ==
    IF Len(bs) > 1 THEN MergeClose(Tail(bs), <<Head(bs)>>, gap) ELSE bs

\* Lines 358-395.
detect_row_bands(content, gap, h) ==
    MergeBands(SelectSeq2(ContentRuns(content, 0, -1, <<>>), TallEnough, h), gap)

MaxImageRows == 8
GapOptions    == {2, 3}
HeightOptions == {2, 3}

BandsInit ==
    /\ is_content \in UNION {[1..n -> BOOLEAN] : n \in 0..MaxImageRows}
    /\ min_gap \in GapOptions
    /\ min_row_height \in HeightOptions
    /\ detected_bands = <<>>
    /\ rb_pc = "call"

BandsIdle ==
    /\ is_content = <<>>
    /\ min_gap = 0
    /\ min_row_height = 0
    /\ detected_bands = <<>>
    /\ rb_pc = "idle"

DetectRowBands ==
    /\ rb_pc = "call"
    /\ detected_bands' = detect_row_bands(is_content, min_gap, min_row_height)
    /\ rb_pc' = "done"
    /\ UNCHANGED <<is_content, min_gap, min_row_height>>
    /\ UNCHANGED notBands

----------------------------------------------------------------------------
(* assign_text_to_cells, then detect_spans (detect_controls.py) *)

\* cell_grid is None (<<>>) or a grid built by build_cell_grid_from_lines, whose
\* cells carry row, col and bbox but no "content" (lines 590-602); a built grid
\* has at least one row and one column (lines 577-579).  A text block is given by
\* the first cell, in row-major order, whose bbox holds the block's centre
\* (lines 852-862), <<-1, -1>> when no cell does.
MaxCellBlocks == 2
BuiltGrids    == { [num_rows |-> nr, num_cols |-> nc] : nr \in 1..2, nc \in 1..2 }
BlockCells    == ((0..1) \X (0..1)) \cup {<<-1, -1>>}

CellsInit ==
    /\ cell_grid \in {<<>>} \cup { <<g>> : g \in BuiltGrids }
    /\ text_blocks \in UNION {[1..n -> BlockCells] : n \in 0..MaxCellBlocks}
    /\ assigned = "pending"
    /\ tc_pc = "assign"

CellsIdle ==
    /\ cell_grid = <<>>
    /\ text_blocks = <<>>
    /\ assigned = "pending"
    /\ tc_pc = "idle"

\* Lines 826-827: without a grid or without blocks the argument is returned as
\* it is: None, or the grid whose cells have no "content".
AssignReturnsArgument ==
    /\ tc_pc = "assign"
    /\ (cell_grid = <<>> \/ text_blocks = <<>>)
    /\ assigned' = IF cell_grid = <<>> THEN "none" ELSE "without_content"
    /\ tc_pc' = "spans"
    /\ UNCHANGED <<cell_grid, text_blocks, spanVars>>
    /\ UNCHANGED notCellStage

\* Lines 829-864: every cell of a copy gets a content list and every block goes
\* to the cell that holds its centre.
AssignContent ==
    /\ tc_pc = "assign"
    /\ cell_grid # <<>> /\ text_blocks # <<>>
    /\ cells' = [r \in 0..(cell_grid[1].num_rows - 1) |->
                    [c \in 0..(cell_grid[1].num_cols - 1) |->
                        \E i \in 1..Len(text_blocks) : text_blocks[i] = <<r, c>>]]
    /\ assigned' = "with_content"
    /\ tc_pc' = "spans"
    /\ UNCHANGED <<cell_grid, text_blocks, consumed, spans, row_idx, col_idx, ds_pc>>
    /\ UNCHANGED notCellStage

\* Lines 882-883.
DetectSpansOfNone ==
    /\ tc_pc = "spans"
    /\ assigned = "none"
    /\ tc_pc' = "returned"
    /\ UNCHANGED <<cell_grid, text_blocks, assigned, spanVars>>
    /\ UNCHANGED notCellStage

\* Lines 885-903: the first cell is not consumed and reading its "content"
\* raises KeyError.
DetectSpansKeyError ==
    /\ tc_pc = "spans"
    /\ assigned = "without_content"
    /\ tc_pc' = "raised"
    /\ UNCHANGED <<cell_grid, text_blocks, assigned, spanVars>>
    /\ UNCHANGED notCellStage

\* Lines 885-894: the loop over the cells starts.
DetectSpansBegin ==
    /\ tc_pc = "spans"
    /\ assigned = "with_content"
    /\ consumed' = [r \in DOMAIN cells |-> [c \in DOMAIN cells[0] |-> FALSE]]
    /\ spans' = <<>>
    /\ row_idx' = 0
    /\ col_idx' = 0
    /\ ds_pc' = "loop"
    /\ tc_pc' = "in_detect_spans"
    /\ UNCHANGED <<cell_grid, text_blocks, assigned, cells>>
    /\ UNCHANGED notCellStage

----------------------------------------------------------------------------
(* group_consecutive_rows on the rows of a page (extract_layout.py) *)

\* The rows are those extract_pdf builds (lines 876-878) from a page 200pt wide
\* with one line of text every 30pt.  A line is a label 40pt wide indented by 0,
\* 8 or 16pt, or, starting at x = 20pt, a label with a value, a bullet item, a
\* bold header, or three short options.
MaxGroupRows == 5
GroupLines   == {"label", "label+8", "label+16", "pair", "bullet", "header", "options"}

GroupLineBlocks(i, line) ==
    CASE line = "label+8"  -> <<TextBlock(i, 2800, 6800, 10, "none", FALSE)>>
      [] line = "label+16" -> <<TextBlock(i, 3600, 7600, 10, "none", FALSE)>>
      [] line = "options"  -> <<TextBlock(i, 2000, 5000, 5, "none", FALSE),
                                TextBlock(i, 7000, 10000, 5, "none", FALSE),
                                TextBlock(i, 12000, 15000, 5, "none", FALSE)>>
      [] OTHER             -> LineBlocks(i, line)

RECURSIVE GroupPageBlocks(_, _)
GroupPageBlocks(lines, i) ==
    IF i > Len(lines) THEN <<>>
    ELSE GroupLineBlocks(i, lines[i]) \o GroupPageBlocks(lines, i + 1)

PageRows(lines) ==
    LET bs == WithIds(GroupPageBlocks(lines, 1))
    IN  classify_rows(group_into_rows(bs), 200, compute_stats(bs))

GroupsInit ==
    /\ \E lines \in UNION {[1..n -> GroupLines] : n \in 0..MaxGroupRows} :
          input_rows = PageRows(lines)
    /\ emitted_groups = <<>>
    /\ gc_pc = "call"

GroupsIdle ==
    /\ input_rows = <<>>
    /\ emitted_groups = <<>>
    /\ gc_pc = "idle"

\* Lines 438-508.
GroupConsecutiveRows ==
    /\ gc_pc = "call"
    /\ emitted_groups' = group_consecutive_rows(input_rows)
    /\ gc_pc' = "done"
    /\ UNCHANGED input_rows
    /\ UNCHANGED notGroups

----------------------------------------------------------------------------
(* find_table_regions (detect_controls.py) *)

\* A horizontal line is [y, x0, x1], a vertical line [x, y0, y1], in pixels.

\* Lines 460-469, with min_pct = 0.3.
lines_overlap_x(line1, line2) ==
    LET x0 == Max(line1.x0, line2.x0)
        x1 == Min(line1.x1, line2.x1)
    IN  /\ x1 > x0
        /\ (x1 - x0) * 10 >= 3 * Min(line1.x1 - line1.x0, line2.x1 - line2.x0)

\* Line 485 as written: its first argument is line, the line the group started
\* from, not h_lines[j].
SeedOverlapsGroup(hs, i, j, group) ==
    \E g \in 1..Len(group) : lines_overlap_x(hs[i], hs[group[g]])

\* Lines 481-487: the group of seed i; group and used hold list positions.
RECURSIVE GrowGroup(_, _, _, _, _)
GrowGroup(hs, i, j, group, used) ==
    IF j > Len(hs) THEN <<group, used>>
    ELSE IF j \notin used /\ SeedOverlapsGroup(hs, i, j, group)
         THEN GrowGroup(hs, i, j + 1, Append(group, j), used \cup {j})
         ELSE GrowGroup(hs, i, j + 1, group, used)

\* Lines 472-489.
RECURSIVE HGroupsFrom(_, _, _, _)
HGroupsFrom(hs, i, used, h_groups) ==
    IF i > Len(hs) THEN h_groups
    ELSE IF i \in used THEN HGroupsFrom(hs, i + 1, used, h_groups)
    ELSE LET grown == GrowGroup(hs, i, i + 1, <<i>>, used \cup {i})
         IN  HGroupsFrom(hs, i + 1, grown[2], Append(h_groups, grown[1]))

RegionTolerance == 10

\* Lines 497-518: <<>> when the group makes no region.
RegionOf(hs, vs, h_group) ==
    LET members == { h_group[g] : g \in 1..Len(h_group) }
        x0 == CHOOSE m \in { hs[k].x0 : k \in members } : \A k \in members : m <= hs[k].x0
        x1 == CHOOSE m \in { hs[k].x1 : k \in members } : \A k \in members : m >= hs[k].x1
        y0 == CHOOSE m \in { hs[k].y : k \in members } : \A k \in members : m <= hs[k].y
        y1 == CHOOSE m \in { hs[k].y : k \in members } : \A k \in members : m >= hs[k].y
        Inside(v, unused) ==
            /\ x0 - RegionTolerance <= v.x /\ v.x <= x1 + RegionTolerance
            /\ v.y0 <= y1 + RegionTolerance
            /\ v.y1 >= y0 - RegionTolerance
        region_v_lines == SelectSeq2(vs, Inside, 0)
    IN  IF Len(h_group) < 2 \/ Len(region_v_lines) < 2 THEN <<>>
        ELSE << [ bbox |-> [x0 |-> x0, y0 |-> y0, x1 |-> x1, y1 |-> y1],
                  h_lines |-> h_group, v_lines |-> region_v_lines ] >>

\* Line 521: a stable insertion by (y0, x0).
RECURSIVE InsertRegion(_, _)
InsertRegion(sorted, r) ==
    IF sorted = <<>> THEN <<r>>
    ELSE IF \/ Head(sorted).bbox.y0 < r.bbox.y0
            \/ (Head(sorted).bbox.y0 = r.bbox.y0 /\ Head(sorted).bbox.x0 <= r.bbox.x0)
         THEN <<Head(sorted)>> \o InsertRegion(Tail(sorted), r)
         ELSE <<r>> \o sorted

RECURSIVE RegionsOf(_, _, _, _)
RegionsOf(hs, vs, h_groups, acc) ==
    IF h_groups = <<>> THEN acc
    ELSE LET r == RegionOf(hs, vs, Head(h_groups))
         IN  RegionsOf(hs, vs, Tail(h_groups),
                       IF r = <<>> THEN acc ELSE InsertRegion(acc, r[1]))

\* Lines 438-523.  The h_lines of a region are given by their list positions.
find_table_regions(hs, vs) ==
    IF hs = <<>> \/ vs = <<>> THEN <<>>
    ELSE RegionsOf(hs, vs, HGroupsFrom(hs, 1, {}, <<>>), <<>>)

\* Horizontal lines 100px long that start at x = 0, 60, 90 or 200, one every
\* 50px down the page, and vertical lines from y = 0 to y = 400 at some of
\* x = 0, 100, 200, 300.
MaxHLines == 4
HLineStarts == {0, 60, 90, 200}
VLineSets   == { <<>>, <<0, 100>>, <<200, 300>>, <<0, 100, 200, 300>>, <<100>> }

RegionsInit ==
    /\ \E starts \in UNION {[1..n -> HLineStarts] : n \in 0..MaxHLines} :
          h_lines = [i \in 1..Len(starts) |->
                        [y |-> 50 * i, x0 |-> starts[i], x1 |-> starts[i] + 100]]
    /\ \E xs \in VLineSets :
          v_lines = [i \in 1..Len(xs) |-> [x |-> xs[i], y0 |-> 0, y1 |-> 400]]
    /\ regions = <<>>
    /\ tr_pc = "call"

RegionsIdle ==
    /\ h_lines = <<>>
    /\ v_lines = <<>>
    /\ regions = <<>>
    /\ tr_pc = "idle"

FindTableRegions ==
    /\ tr_pc = "call"
    /\ regions' = find_table_regions(h_lines, v_lines)
    /\ tr_pc' = "done"
    /\ UNCHANGED <<h_lines, v_lines>>
    /\ UNCHANGED notRegions

----------------------------------------------------------------------------
(* extract_page_blocks and merge_continuation_blocks (extract_layout.py) *)

\* A span is [bbox, line_y, kind, id]: bbox in hundredths of a point, line_y the
\* line's y in tenths of a point (line 57), kind what its text looks like
\* ("plain", "ends" with a sentence terminator, or begins with a section
\* "marker"), id its position in the extraction order.  Spans of white space are
\* left out (lines 47-48).  The text of a block is the sequence of the ids of the
\* spans joined into it, in the order of joining.

\* A stable insertion sort on the key <<a, b>>.
KeyBefore(k1, k2) == k1[1] < k2[1] \/ (k1[1] = k2[1] /\ k1[2] < k2[2])

RECURSIVE InsertByKey(_, _, _)
InsertByKey(s, Key(_), r) ==
    IF s = <<>> THEN <<r>>
    ELSE IF KeyBefore(Key(r), Key(Head(s))) THEN <<r>> \o s
    ELSE <<Head(s)>> \o InsertByKey(Tail(s), Key, r)

RECURSIVE SortByKey(_, _, _)
SortByKey(s, Key(_), n) ==
    IF n = 0 THEN <<>>
    ELSE InsertByKey(SortByKey(s, Key, n - 1), Key, s[n])

\* Line 64.
SpanKey(sp) == <<sp.line_y, sp.bbox.x0>>
\* Line 127.
BlockKey(b) == <<b.bbox.y0, b.bbox.x0>>

SpanMergeGap == 300

\* Lines 71-97: a span joins the current block when its line_y is less than 2
\* away and it starts less than 3 after the block's right edge.
RECURSIVE MergeSpansFrom(_, _, _)
MergeSpansFrom(sps, current, acc) ==
    IF sps = <<>> THEN Append(acc, current)
    ELSE LET span == Head(sps)
             same_line == Abs(span.line_y - current.line_y) < 20
             x_gap == span.bbox.x0 - current.bbox.x1
         IN  IF same_line /\ x_gap < SpanMergeGap
             THEN MergeSpansFrom(Tail(sps),
                    [current EXCEPT
                        !.text = current.text \o <<span.id>>,
                        !.bbox = [ x0 |-> current.bbox.x0,
                                   y0 |-> Min(current.bbox.y0, span.bbox.y0),
                                   x1 |-> span.bbox.x1,
                                   y1 |-> Max(current.bbox.y1, span.bbox.y1) ]],
                    acc)
             ELSE MergeSpansFrom(Tail(sps),
                    [text |-> <<span.id>>, bbox |-> span.bbox, line_y |-> span.line_y],
                    Append(acc, current))

\* Lines 63-97.
merge_spans(sps) ==
    LET sorted == SortByKey(sps, SpanKey, Len(sps))
    IN  IF sorted = <<>> THEN <<>>
        ELSE MergeSpansFrom(Tail(sorted),
                [text |-> <<sorted[1].id>>, bbox |-> sorted[1].bbox,
                 line_y |-> sorted[1].line_y], <<>>)

\* The final format left in the order of the span merge.
final_format_unsorted(bs) ==
    [i \in 1..Len(bs) |-> [text |-> bs[i].text, bbox |-> bs[i].bbox]]

\* Lines 99-127: the final format, sorted by (y0, x0).
final_format(bs) ==
    SortByKey([i \in 1..Len(bs) |-> [text |-> bs[i].text, bbox |-> bs[i].bbox]], BlockKey,
              Len(bs))

ContinuationYGap       == 1500
ContinuationXTolerance == 500

\* Line 162 and line 163 on the text of a block.
EndsSentence(sps, b)  == sps[b.text[Len(b.text)] + 1].kind = "ends"
StartsSection(sps, b) == sps[b.text[1] + 1].kind = "marker"

\* Lines 158-176.
RECURSIVE MergeContinuationFrom(_, _, _, _)
MergeContinuationFrom(sps, bs, current, merged) ==
    IF bs = <<>> THEN Append(merged, current)
    ELSE LET block == Head(bs)
             same_x == Abs(block.bbox.x0 - current.bbox.x0) < ContinuationXTolerance
             sequential_y == block.bbox.y0 - current.bbox.y1 < ContinuationYGap
         IN  IF /\ same_x /\ sequential_y
                /\ ~EndsSentence(sps, current) /\ ~StartsSection(sps, block)
             THEN MergeContinuationFrom(sps, Tail(bs),
                    [current EXCEPT
                        !.text = current.text \o block.text,
                        !.bbox.y1 = block.bbox.y1,
                        !.bbox.x1 = Max(current.bbox.x1, block.bbox.x1)],
                    merged)
             ELSE MergeContinuationFrom(sps, Tail(bs), block, Append(merged, current))

\* Lines 139-179.
merge_continuation_blocks(sps, bs) ==
    IF Len(bs) < 2 THEN bs ELSE MergeContinuationFrom(sps, Tail(bs), Head(bs), <<>>)

\* The spans of a page: each is taken from one of the places below and has one of
\* the three kinds of text.  <<x0, y0, x1, y1, line_y>>:
\*   1  a word at the start of the first line        20-60pt,  y 10-20
\*   2  the next word of that line, 2pt further       62-90pt,  y 10-20
\*   3  a word on a line 1pt higher, far to the right 100-150pt, y 9-19
\*   4  a word under the first, on the second line    20-60pt,  y 22-32
\*   5  a word indented by 2pt on the first line      22-70pt,  y 10-20
\*   6  a word set low in a tall line that starts higher than the others,
\*      20-60pt, y 16-26, line y 6
MaxSpans   == 3
SpanPlaces == << <<2000, 1000, 6000, 2000, 100>>, <<6200, 1000, 9000, 2000, 100>>,
                 <<10000, 900, 15000, 1900, 90>>, <<2000, 2200, 6000, 3200, 220>>,
                 <<2200, 1000, 7000, 2000, 100>>, <<2000, 1600, 6000, 2600, 60>> >>
SpanKinds  == {"plain", "ends", "marker"}

MakeSpan(place, kind, id) ==
    [ bbox |-> [x0 |-> SpanPlaces[place][1], y0 |-> SpanPlaces[place][2],
                x1 |-> SpanPlaces[place][3], y1 |-> SpanPlaces[place][4]],
      line_y |-> SpanPlaces[place][5], kind |-> kind, id |-> id ]

BlocksInit ==
    /\ \E n \in 0..MaxSpans :
          \E places \in [1..n -> 1..Len(SpanPlaces)], kinds \in [1..n -> SpanKinds] :
              raw_spans = [i \in 1..n |-> MakeSpan(places[i], kinds[i], i - 1)]
    /\ line_blocks = <<>>
    /\ sorted_blocks = <<>>
    /\ page_blocks = <<>>
    /\ ab_pc = "spans"

BlocksIdle ==
    /\ raw_spans = <<>>
    /\ line_blocks = <<>>
    /\ sorted_blocks = <<>>
    /\ page_blocks = <<>>
    /\ ab_pc = "idle"

\* Lines 63-97.
MergeSpans ==
    /\ ab_pc = "spans"
    /\ line_blocks' = merge_spans(raw_spans)
    /\ ab_pc' = "format"
    /\ UNCHANGED <<raw_spans, sorted_blocks, page_blocks>>
    /\ UNCHANGED notBlocks

\* Lines 99-127.
FormatAndSort ==
    /\ ab_pc = "format"
    /\ sorted_blocks' = final_format(line_blocks)
    /\ ab_pc' = "continuation"
    /\ UNCHANGED <<raw_spans, line_blocks, page_blocks>>
    /\ UNCHANGED notBlocks

\* Lines 129-136: the continuation merge, then the ids.
MergeAndNumber ==
    /\ ab_pc = "continuation"
    /\ page_blocks' = WithIds(merge_continuation_blocks(raw_spans, sorted_blocks))
    /\ ab_pc' = "returned"
    /\ UNCHANGED <<raw_spans, line_blocks, sorted_blocks>>
    /\ UNCHANGED notBlocks

----------------------------------------------------------------------------
(* The scale factor: render_page_to_image, detect_all_controls, extract_combined *)

RenderDpi      == 200
PointsPerInch  == 72
StandardHeight == 842

\* combined_extractor.py lines 86-88: the page is rendered with zoom dpi / 72;
\* the pixmap covers the smallest whole-pixel rectangle that holds the page.
PixmapHeight(points, dpi) == (points * dpi + PointsPerInch - 1) \div PointsPerInch

\* detect_controls.py lines 953-959 and 997: the factor is the image's height
\* over the height of an A4 page at 72 dpi, reported to 2 decimals.
ReportedScale(height) == RoundHalfEven(height * 100, StandardHeight)

\* combined_extractor.py lines 46-47, 112-115: a raster coordinate over the factor,
\* in hundredths of a point.
ToDocument(px, sf) == RoundHalfEven(px * 10000, sf)

\* Page heights: every 10pt up to 10 * MaxHeightSteps, and Letter and A4.
MaxHeightSteps == 100
PdfHeights == {10 * k : k \in 1..MaxHeightSteps} \cup {792, StandardHeight}

ScaleInit ==
    /\ pdf_height \in PdfHeights
    /\ image_height = 0
    /\ reported_scale = 0
    /\ fusion_scale = 0
    /\ sc_pc = "start"

ScaleIdle ==
    /\ pdf_height = 0
    /\ image_height = 0
    /\ reported_scale = 0
    /\ fusion_scale = 0
    /\ sc_pc = "idle"

\* combined_extractor.py line 356 and lines 70-95.
RenderPageToImage ==
    /\ sc_pc = "start"
    /\ image_height' = PixmapHeight(pdf_height, RenderDpi)
    /\ sc_pc' = "rendered"
    /\ UNCHANGED <<pdf_height, reported_scale, fusion_scale>>
    /\ UNCHANGED notScale

\* detect_controls.py lines 953-959, 997.
DetectAllControlsScale ==
    /\ sc_pc = "rendered"
    /\ reported_scale' = ReportedScale(image_height)
    /\ sc_pc' = "detected"
    /\ UNCHANGED <<pdf_height, image_height, fusion_scale>>
    /\ UNCHANGED notScale

\* combined_extractor.py line 365.
FusionTakesScale ==
    /\ sc_pc = "detected"
    /\ fusion_scale' = reported_scale
    /\ sc_pc' = "fusion"
    /\ UNCHANGED <<pdf_height, image_height, reported_scale>>
    /\ UNCHANGED notScale

----------------------------------------------------------------------------
(* Specifications *)

DedupNext ==
    \/ RemoveOverlappingEmpty
    \/ RemoveOverlappingSort
    \/ RemoveOverlappingKeep
    \/ RemoveOverlappingDrop
    \/ RemoveOverlappingReturn

SpansNext ==
    \/ DetectSpansSkip
    \/ DetectSpansEmit
    \/ DetectSpansReturn

ClassifyNext == ClassifyPageType
PairNext     == ClassifyPair

GridNext ==
    \/ ApplyGridNone
    \/ ApplyGrid

FilterNext ==
    \/ FilterGridAligned
    \/ FilterStrict

ExtractNext ==
    \/ ExtractPdfNoPage
    \/ ExtractPdfPage
    \/ RenderFailsBeforeFile
    \/ RenderCreateFile
    \/ RenderSaveFails
    \/ RenderSave
    \/ RenderCloseFails
    \/ RenderReturn
    \/ DetectFails
    \/ DetectReturn
    \/ FilterAndClassify
    \/ FormBranch
    \/ TextBranch

InitDedup    == DedupInit /\ SpansIdle /\ ClassIdle /\ GridIdle /\ FilterIdle /\ ExtractIdle /\ BandsIdle /\ CellsIdle /\ GroupsIdle /\ RegionsIdle /\ BlocksIdle /\ ScaleIdle
InitSpans    == SpansInit /\ DedupIdle /\ ClassIdle /\ GridIdle /\ FilterIdle /\ ExtractIdle /\ BandsIdle /\ CellsIdle /\ GroupsIdle /\ RegionsIdle /\ BlocksIdle /\ ScaleIdle
InitClassify == ClassifyInit /\ DedupIdle /\ SpansIdle /\ GridIdle /\ FilterIdle /\ ExtractIdle /\ BandsIdle /\ CellsIdle /\ GroupsIdle /\ RegionsIdle /\ BlocksIdle /\ ScaleIdle
InitPair     == PairInit /\ DedupIdle /\ SpansIdle /\ GridIdle /\ FilterIdle /\ ExtractIdle /\ BandsIdle /\ CellsIdle /\ GroupsIdle /\ RegionsIdle /\ BlocksIdle /\ ScaleIdle
InitGrid     == GridInit /\ DedupIdle /\ SpansIdle /\ ClassIdle /\ FilterIdle /\ ExtractIdle /\ BandsIdle /\ CellsIdle /\ GroupsIdle /\ RegionsIdle /\ BlocksIdle /\ ScaleIdle
InitFilter   == FilterInit /\ DedupIdle /\ SpansIdle /\ GridIdle /\ ExtractIdle /\ BandsIdle /\ CellsIdle /\ GroupsIdle /\ RegionsIdle /\ BlocksIdle /\ ScaleIdle
InitMargin   == MarginInit /\ DedupIdle /\ SpansIdle /\ GridIdle /\ ExtractIdle /\ BandsIdle /\ CellsIdle /\ GroupsIdle /\ RegionsIdle /\ BlocksIdle /\ ScaleIdle
InitBands    == BandsInit /\ DedupIdle /\ SpansIdle /\ ClassIdle /\ GridIdle /\ FilterIdle /\ ExtractIdle /\ CellsIdle /\ GroupsIdle /\ RegionsIdle /\ BlocksIdle /\ ScaleIdle
InitCells    == CellsInit /\ DedupIdle /\ SpansIdle /\ ClassIdle /\ GridIdle /\ FilterIdle /\ ExtractIdle /\ BandsIdle /\ GroupsIdle /\ RegionsIdle /\ BlocksIdle /\ ScaleIdle
InitGroups   == GroupsInit /\ DedupIdle /\ SpansIdle /\ ClassIdle /\ GridIdle /\ FilterIdle /\ ExtractIdle /\ BandsIdle /\ CellsIdle /\ RegionsIdle /\ BlocksIdle /\ ScaleIdle
InitRegions  == RegionsInit /\ DedupIdle /\ SpansIdle /\ ClassIdle /\ GridIdle /\ FilterIdle /\ ExtractIdle /\ BandsIdle /\ CellsIdle /\ GroupsIdle /\ BlocksIdle /\ ScaleIdle
InitBlocks   == BlocksInit /\ DedupIdle /\ SpansIdle /\ ClassIdle /\ GridIdle /\ FilterIdle /\ ExtractIdle /\ BandsIdle /\ CellsIdle /\ GroupsIdle /\ RegionsIdle /\ ScaleIdle
InitExtract  == ExtractInit /\ DedupIdle /\ SpansIdle /\ GridIdle /\ ClassIdle /\ FilterIdle /\ BandsIdle /\ CellsIdle /\ GroupsIdle /\ RegionsIdle /\ BlocksIdle /\ ScaleIdle

SpecDedup == InitDedup /\ [][DedupNext]_vars
SpecSpans == InitSpans /\ [][SpansNext]_vars
SpecClassify == InitClassify /\ [][ClassifyNext]_vars
SpecPair     == InitPair /\ [][PairNext]_vars
SpecGrid     == InitGrid /\ [][GridNext]_vars
SpecFilter   == InitFilter /\ [][FilterNext]_vars
SpecMargin   == InitMargin /\ [][FilterNext]_vars
SpecExtract  == InitExtract /\ [][ExtractNext]_vars
CellsNext ==
    \/ AssignReturnsArgument
    \/ AssignContent
    \/ DetectSpansOfNone
    \/ DetectSpansKeyError
    \/ DetectSpansBegin
    \/ DetectSpansSkip
    \/ DetectSpansEmit
    \/ DetectSpansReturn
SpecCells    == InitCells /\ [][CellsNext]_vars
GroupsNext   == GroupConsecutiveRows
SpecGroups   == InitGroups /\ [][GroupsNext]_vars
RegionsNext  == FindTableRegions
SpecRegions  == InitRegions /\ [][RegionsNext]_vars
BlocksNext ==
    \/ MergeSpans
    \/ FormatAndSort
    \/ MergeAndNumber
SpecBlocks   == InitBlocks /\ [][BlocksNext]_vars
ScaleNext ==
    \/ RenderPageToImage
    \/ DetectAllControlsScale
    \/ FusionTakesScale
InitScale    == ScaleInit /\ DedupIdle /\ SpansIdle /\ ClassIdle /\ GridIdle /\ FilterIdle /\ ExtractIdle /\ BandsIdle /\ CellsIdle /\ GroupsIdle /\ RegionsIdle /\ BlocksIdle
SpecScale    == InitScale /\ [][ScaleNext]_vars
BandsNext    == DetectRowBands
SpecBands    == InitBands /\ [][BandsNext]_vars

----------------------------------------------------------------------------
(* C1: any two distinct controls kept by remove_overlapping have an
   intersection-over-union of at most the threshold it was called with. *)

IntersectionArea(a, b) ==
    Max(0, Min(a.x1, b.x1) - Max(a.x0, b.x0)) * Max(0, Min(a.y1, b.y1) - Max(a.y0, b.y0))

BoxArea(a) == (a.x1 - a.x0) * (a.y1 - a.y0)

IoUAtMost(a, b, t) ==
    10 * IntersectionArea(a, b) <= t * (BoxArea(a) + BoxArea(b) - IntersectionArea(a, b))

C1_KeptPairwiseBelowThreshold ==
    \A i, j \in 1..Len(keep) :
        i # j => IoUAtMost(keep[i].bbox, keep[j].bbox, iou_threshold)

\* A finished call that kept two intersecting controls and dropped another one.
C1_Witness ==
    /\ ro_pc = "done"
    /\ Len(keep) >= 2
    /\ Len(keep) < Len(controls)
    /\ \E i, j \in 1..Len(keep) :
          i # j /\ IntersectionArea(keep[i].bbox, keep[j].bbox) > 0

----------------------------------------------------------------------------
(* C2: any two distinct spans returned by detect_spans cover disjoint sets of
   cells. *)

SpanCells(s) ==
    { <<r, c>> : r \in s.row..(s.row + s.rowspan - 1), c \in s.col..(s.col + s.colspan - 1) }

C2_SpansDisjoint ==
    \A i, j \in 1..Len(spans) :
        i # j => SpanCells(spans[i]) \cap SpanCells(spans[j]) = {}

----------------------------------------------------------------------------
(* C6: for a non-empty block list classify_page_type returns the result of the
   first rule that matches, in the order (a) two or more controls: form;
   (b) density above 5 and no control: text; (c) two or more estimated columns
   and no control: text; (d) alignment above 0.4, width ratio below 0.6 and
   density below 5: form; (e) width ratio above 0.7 and density above 0.5:
   text; (f) form by default.  A page with exactly one control is never made
   text by rule (b) or (c). *)

C6_RuleA == control_count >= 2
C6_RuleB == DensityNum(blocks) > 5 * DensityDen(page_width, page_height) /\ control_count = 0
C6_RuleC == ColumnCount(blocks, columns) >= 2 /\ control_count = 0
C6_RuleD ==
    /\ 10 * AlignedBlocks(blocks) > 4 * Len(blocks)
    /\ 10 * WidthNum(blocks, page_width) < 6 * WidthDen(blocks, page_width)
    /\ DensityNum(blocks) < 5 * DensityDen(page_width, page_height)
C6_RuleE ==
    /\ 10 * WidthNum(blocks, page_width) > 7 * WidthDen(blocks, page_width)
    /\ 10 * DensityNum(blocks) > 5 * DensityDen(page_width, page_height)

C6_Returned(type, reason) ==
    classification.page_type = type /\ classification.reason = reason

C6_FirstMatchingRuleWins ==
    (cls_pc = "done" /\ blocks # <<>>) =>
        /\ C6_RuleA => C6_Returned("form", "has_controls")
        /\ (~C6_RuleA /\ C6_RuleB) => C6_Returned("text", "high_density_no_controls")
        /\ (~C6_RuleA /\ ~C6_RuleB /\ C6_RuleC) => C6_Returned("text", "multi_column")
        /\ (~C6_RuleA /\ ~C6_RuleB /\ ~C6_RuleC /\ C6_RuleD)
              => C6_Returned("form", "grid_alignment")
        /\ (~C6_RuleA /\ ~C6_RuleB /\ ~C6_RuleC /\ ~C6_RuleD /\ C6_RuleE)
              => C6_Returned("text", "prose_layout")
        /\ (~C6_RuleA /\ ~C6_RuleB /\ ~C6_RuleC /\ ~C6_RuleD /\ ~C6_RuleE)
              => C6_Returned("form", "default")
        /\ control_count = 1 =>
              classification.reason \notin {"high_density_no_controls", "multi_column"}

\* A dense page of two or more estimated columns with exactly one control: rules
\* (b) and (c) are passed over and the page is classified form.
C6_Witness ==
    /\ cls_pc = "done"
    /\ control_count = 1
    /\ DensityNum(blocks) > 5 * DensityDen(page_width, page_height)
    /\ ColumnCount(blocks, columns) >= 2
    /\ classification.page_type = "form"

----------------------------------------------------------------------------
(* C7: two calls of classify_page_type that report identical signals records
   return the same page_type and the same reason. *)

C7_SameExactSignals ==
    LET colsB == DetectColumnsOfBlocks(callB.blocks)
    IN  /\ control_count = callB.control_count
        /\ Len(blocks) = Len(callB.blocks)
        /\ ColumnCount(blocks, columns) = ColumnCount(callB.blocks, colsB)
        /\ DensityNum(blocks) * DensityDen(callB.page_width, callB.page_height)
              = DensityNum(callB.blocks) * DensityDen(page_width, page_height)
        /\ WidthNum(blocks, page_width) * WidthDen(callB.blocks, callB.page_width)
              = WidthNum(callB.blocks, callB.page_width) * WidthDen(blocks, page_width)
        /\ AlignedBlocks(blocks) * Len(callB.blocks) = AlignedBlocks(callB.blocks) * Len(blocks)

----------------------------------------------------------------------------
(* C8: when apply_grid_to_row_group returns a grid with N columns, every row of
   the grid has a cells array of exactly N entries and the grid has one row per
   row index of the group. *)

C8_GridComplete ==
    (grid_pc = "done" /\ grid # <<>>) =>
        /\ grid[1].columns = Len(grid[1].column_boundaries)
        /\ Len(grid[1].rows) = Len(row_indices)
        /\ \A k \in 1..Len(grid[1].rows) : Len(grid[1].rows[k].cells) = grid[1].columns

\* A grid of three columns over three rows in which some row has one block and
\* two empty cells.
C8_Witness ==
    /\ grid_pc = "done"
    /\ grid # <<>>
    /\ grid[1].columns = 3
    /\ Len(grid[1].rows) = 3
    /\ \E k \in 1..3 :
          Cardinality({ c \in 1..3 : grid[1].rows[k].cells[c] = <<>> }) = 2

----------------------------------------------------------------------------
(* C10: the grid-alignment override of filter_valid_controls *)

SizeValidControls == SelectSeq2(raw_controls, SizeValid, scale_factor)

OverrideApplies ==
    /\ fv_pc = "done"
    /\ check_controls_aligned(SizeValidControls, scale_factor, page_width)

\* The control's centre lies in the bbox of some block widened by padX to the left
\* and right and padY above and below (hundredths of a point).
CentreWithin(control, padX, padY) ==
    \E k \in 1..Len(blocks) :
        LET bb == blocks[k].bbox
        IN  /\ (bb.x0 - padX) * scale_factor <= CentreXNum(control) * 100
            /\ CentreXNum(control) * 100 <= (bb.x1 + padX) * scale_factor
            /\ (bb.y0 - padY) * scale_factor <= CentreYNum(control) * 100
            /\ CentreYNum(control) * 100 <= (bb.y1 + padY) * scale_factor

Retained(control) == \E j \in 1..Len(valid_controls) : valid_controls[j] = control

----------------------------------------------------------------------------
(* C3: a page whose text extraction yields zero blocks *)

Returned == ex_pc = "returned"
IsErrorRecord(rec) == DOMAIN rec = {"error"} /\ rec.error = "No pages extracted"
PageExists == page_num = 1

\* C3 as stated: when the requested page exists and its text extraction yields
\* zero blocks, extract_combined returns exactly the error record and neither
\* rendering, control detection nor classification runs for it.
C3_ZeroBlocksGiveErrorRecord ==
    (PageExists /\ doc_page.blocks = <<>>) =>
        /\ stages \cap {"render_page_to_image", "detect_all_controls", "classify_page_type"} = {}
        /\ Returned => IsErrorRecord(result)

----------------------------------------------------------------------------
(* C4: the temporary rendered-image file *)

\* C4 as stated: once extract_combined has returned or raised, the temporary
\* image file does not exist, whichever step after its creation failed.
C4_TempFileGoneOnExit ==
    ex_pc \in {"returned", "raised"} => temp_file # "exists"

----------------------------------------------------------------------------
(* C5: the row source of a form page *)

IsFormRecord == Returned /\ ~IsErrorRecord(result) /\ result.page_type = "form"

\* The bands that hold the y centre of at least one block.
PopulatedBands ==
    { k \in 1..Len(row_bands) :
        \E i \in 1..Len(blocks) :
            /\ row_bands[k].y0 * 20000 <= YSum(blocks[i]) * scale_factor
            /\ YSum(blocks[i]) * scale_factor <= row_bands[k].y1 * 20000 }

RowsFromOneSource ==
    LET rs == result.text.rows[1]
    IN  IF result.text.row_source = "visual_bands"
        THEN \A i \in 1..Len(rs) : "source" \in DOMAIN rs[i] /\ rs[i].source = "visual_band"
        ELSE rs = layout_rows /\ \A i \in 1..Len(rs) : "source" \notin DOMAIN rs[i]

\* C5 as stated: on a form page the rows are the visual-band rows exactly when the
\* detector found at least 3 bands, the text-proximity rows otherwise, and all
\* rows come from the one source.
C5_VisualRowsIffThreeBandsFound ==
    IsFormRecord =>
        /\ result.text.row_source = "visual_bands" <=> Len(row_bands) >= 3
        /\ RowsFromOneSource

\* C5 amended: on a form page the rows are the visual-band rows exactly when at
\* least 3 bands hold the y centre of a block; otherwise, 3 or more bands found
\* or not, they are the text-proximity rows; the sources are never mixed.
C5_VisualRowsIffThreeBandsPopulated ==
    IsFormRecord =>
        /\ result.text.row_source = "visual_bands" <=> Cardinality(PopulatedBands) >= 3
        /\ result.text.row_source \in {"visual_bands", "text_y_proximity"}
        /\ RowsFromOneSource

\* A form page whose rows are three visual-band rows.
C5_Witness ==
    /\ IsFormRecord
    /\ result.text.row_source = "visual_bands"
    /\ Len(result.text.rows[1]) >= 3
    /\ Cardinality(PopulatedBands) >= 3

----------------------------------------------------------------------------
(* C9: the record of a page that is not a form *)

BranchStages ==
    {"assign_blocks_to_bands", "classify_visual_rows", "group_consecutive_rows",
     "apply_grid_to_row_group", "compute_control_features", "map_controls_to_blocks"}

----------------------------------------------------------------------------
(* C11: the strict pass of filter_valid_controls *)

StrictApplies ==
    /\ fv_pc = "done"
    /\ ~check_controls_aligned(SizeValidControls, scale_factor, page_width)

\* The centre is left of 5% of the page width.
CentreInMarginBand(control) == 20 * CentreXNum(control) < page_width * scale_factor

\* Some block has its y centre within 10pt of the control's and ends left of the
\* control's left edge, at most 50pt away from it.
LabelWithin50pt(control) ==
    \E k \in 1..Len(blocks) :
        /\ Abs(YSum(blocks[k]) * scale_factor - 200 * CentreYNum(control)) <= 2000 * scale_factor
        /\ blocks[k].bbox.x1 * scale_factor < control.bbox.x0 * 10000
        /\ control.bbox.x0 * 10000 - blocks[k].bbox.x1 * scale_factor <= 5000 * scale_factor

\* C11: when the grid-alignment override does not apply, no control returned by
\* filter_valid_controls has its centre in the left-margin band without a block
\* on its row ending within 50pt to the left of its left edge.
C11_StrictDropsUnlabelledMarginControls ==
    StrictApplies =>
        \A j \in 1..Len(valid_controls) :
            CentreInMarginBand(valid_controls[j]) => LabelWithin50pt(valid_controls[j])

\* A lone unlabelled control at x = 10pt is discarded, and in another run a
\* labelled control at x = 10pt is kept.
C11_Witness ==
    /\ StrictApplies
    /\ \/ /\ Len(raw_controls) = 1
          /\ CentreInMarginBand(raw_controls[1])
          /\ ~LabelWithin50pt(raw_controls[1])
          /\ SizeValidControls = raw_controls
          /\ valid_controls = <<>>
       \/ /\ Len(raw_controls) = 2
          /\ \A i \in 1..2 : CentreInMarginBand(raw_controls[i])
          /\ LabelWithin50pt(raw_controls[1]) /\ ~LabelWithin50pt(raw_controls[2])
          /\ valid_controls = <<raw_controls[1]>>

----------------------------------------------------------------------------
(* C16: x-alignment inside the left-margin band *)

\* The size-valid controls whose x bucket is shared by 3 or more of them.
XAlignedControls ==
    { i \in 1..Len(SizeValidControls) :
        Cardinality({ j \in 1..Len(SizeValidControls) :
            BucketX(SizeValidControls[j], scale_factor) = BucketX(SizeValidControls[i], scale_factor) })
        >= 3 }

NoThreeShareY ==
    \A i \in 1..Len(SizeValidControls) :
        Cardinality({ j \in 1..Len(SizeValidControls) :
            BucketY(SizeValidControls[j], scale_factor) = BucketY(SizeValidControls[i], scale_factor) })
        < 3

\* C16 as stated: when every control of every group of 3 or more size-valid
\* controls sharing an x position has its centre left of 5% of the page width and
\* no 3 controls share a y position, check_controls_aligned returns False.
C16_MarginAlignmentNeverOverrides ==
    ( /\ fv_pc = "done"
      /\ \A i \in XAlignedControls : CentreInMarginBand(SizeValidControls[i])
      /\ NoThreeShareY )
    => ~check_controls_aligned(SizeValidControls, scale_factor, page_width)

----------------------------------------------------------------------------
(* C12: merging and discarding in detect_row_bands *)

\* C12 as stated: content runs separated by a gap smaller than min_gap end up in
\* one band, and a band is discarded only when its height after merging is below
\* min_row_height: the bands are the runs merged across small gaps, less the
\* merged bands that are too low.
C12_MergeThenDiscard ==
    rb_pc = "done" =>
        detected_bands = SelectSeq2(MergeBands(ContentRuns(is_content, 0, -1, <<>>), min_gap),
                           TallEnough, min_row_height)

----------------------------------------------------------------------------
(* C13: raster to document space and back *)

\* pdf is in hundredths of a point, sf in hundredths, px in pixels:
\* |pdf * sf - px| <= 0.005 * sf.
RoundTripWithin(px, pdf, sf) == 2 * Abs(pdf * sf - px * 10000) <= sf

BboxKeys == {"x0", "y0", "x1", "y1"}

\* C13: for every control of a returned form record, multiplying a pdf_bbox
\* coordinate by the recorded scale_factor gives back the raster coordinate
\* within at most 0.005 * scale_factor.
C13_RoundTripWithinHalfCent ==
    IsFormRecord =>
        \A i \in 1..Len(result.controls.items) : \A k \in BboxKeys :
            RoundTripWithin(result.controls.items[i].bbox[k],
                            result.controls.items[i].pdf_bbox[k],
                            result.controls.scale_factor)

\* A returned control one of whose coordinates is changed by the rounding.
C13_Witness ==
    /\ IsFormRecord
    /\ \E i \in 1..Len(result.controls.items) : \E k \in BboxKeys :
          result.controls.items[i].pdf_bbox[k] * result.controls.scale_factor
              # result.controls.items[i].bbox[k] * 10000

----------------------------------------------------------------------------
(* C14: the value of rowspan and colspan *)

\* n is 1 plus the number of consecutive empty cells directly below (r, c): the
\* n - 1 cells below are empty and the run stops at a non-empty cell or at the
\* last row of the grid.
IsRunBelow(n, r, c) ==
    /\ n >= 1
    /\ r + n <= NumRows(cells)
    /\ \A k \in 1..(n - 1) : ~cells[r + k][c]
    /\ (r + n = NumRows(cells) \/ cells[r + n][c])

IsRunRight(n, r, c) ==
    /\ n >= 1
    /\ c + n <= NumCols(cells)
    /\ \A k \in 1..(n - 1) : ~cells[r][c + k]
    /\ (c + n = NumCols(cells) \/ cells[r][c + n])

InsideSpan(s, r, c) ==
    /\ s.row <= r /\ r < s.row + s.rowspan
    /\ s.col <= c /\ c < s.col + s.colspan

\* C14: every span reported for a non-empty cell has rowspan 1 plus the run of
\* empty cells directly below it and colspan 1 plus the run of empty cells
\* directly to its right; and every non-empty cell is reported with such a span
\* unless it lies inside the rectangle of a span reported before it.
C14_SpanCountsEmptyRun ==
    ds_pc = "done" =>
        /\ \A i \in 1..Len(spans) :
              ~spans[i].is_empty =>
                  /\ IsRunBelow(spans[i].rowspan, spans[i].row, spans[i].col)
                  /\ IsRunRight(spans[i].colspan, spans[i].row, spans[i].col)
        /\ \A r \in DOMAIN cells : \A c \in DOMAIN cells[r] :
              cells[r][c] =>
                  \/ \E i \in 1..Len(spans) :
                        /\ spans[i].row = r /\ spans[i].col = c /\ ~spans[i].is_empty
                  \/ \E i \in 1..Len(spans) :
                        /\ InsideSpan(spans[i], r, c)
                        /\ <<spans[i].row, spans[i].col>> # <<r, c>>

\* Text at rows 0 and 3 of column 0, rows 1 and 2 empty: rowspan 3 for row 0.
C14_Witness ==
    /\ ds_pc = "done"
    /\ NumRows(cells) = 4
    /\ cells[0][0] /\ ~cells[1][0] /\ ~cells[2][0] /\ cells[3][0]
    /\ \E i \in 1..Len(spans) :
          spans[i].row = 0 /\ spans[i].col = 0 /\ spans[i].rowspan = 3

----------------------------------------------------------------------------
(* C15: the table-cell stage on an empty list of blocks *)

\* C15 as stated: for any cell grid, None included, and an empty list of text
\* blocks, assign_text_to_cells followed by detect_spans does not raise.
C15_NoBlocksNeverRaises ==
    text_blocks = <<>> => tc_pc # "raised"

----------------------------------------------------------------------------
(* C17: the label block of a control *)

\* The block the control is labelled with; ids are list positions from 0.
LabelBlock(control) == blocks[control.label_block_id + 1]

\* C17 as stated: a block is attached only within a bounded horizontal gap, so a
\* block arbitrarily far to the left is never attached.  The bound is taken to be
\* max_gap_pt of has_label_to_left, the only label gap the source names;
\* map_controls_to_blocks itself has none.
C17_LabelWithinBoundedGap ==
    IsFormRecord =>
        \A i \in 1..Len(result.controls.items) :
            LET control == result.controls.items[i]
            IN  "label_block_id" \in DOMAIN control =>
                    LabelDistance(control, LabelBlock(control), scale_factor)
                        <= MaxLabelGapPt * 100 * scale_factor

----------------------------------------------------------------------------
(* C18: the rows of a group *)

IsConsecutiveRun(indices) ==
    \A k \in 1..(Len(indices) - 1) : indices[k + 1] = indices[k] + 1

\* C18 as stated: every group is a run of consecutive row indices in which
\* every pair of rows, neighbouring or not, satisfies can_group_rows.
C18_GroupRowsPairwiseCompatible ==
    gc_pc = "done" =>
        \A g \in 1..Len(emitted_groups) :
            LET indices == emitted_groups[g].row_indices
            IN  /\ IsConsecutiveRun(indices)
                /\ \A j, k \in 1..Len(indices) :
                      j < k => can_group_rows(input_rows[indices[j] + 1],
                                              input_rows[indices[k] + 1])

----------------------------------------------------------------------------
(* C19: size, count, disjointness and ids of the groups *)

IndexSet(group) == { group.row_indices[k] : k \in 1..Len(group.row_indices) }

\* C19: a group with hint grid has at least 3 rows and a group with another hint
\* at least 2; row_count is the number of row_indices; no row index belongs to
\* two groups; and the k-th group emitted has id g(k-1).
C19_GroupSizesAndIds ==
    gc_pc = "done" =>
        /\ \A g \in 1..Len(emitted_groups) :
              /\ emitted_groups[g].hint = "grid" => Len(emitted_groups[g].row_indices) >= 3
              /\ Len(emitted_groups[g].row_indices) >= 2
              /\ emitted_groups[g].row_count = Len(emitted_groups[g].row_indices)
              /\ emitted_groups[g].id = g - 1
        /\ \A g, h \in 1..Len(emitted_groups) :
              g # h => IndexSet(emitted_groups[g]) \cap IndexSet(emitted_groups[h]) = {}

\* A grid group of 3 rows and a second group with another hint and 2 rows.
C19_Witness ==
    /\ gc_pc = "done"
    /\ Len(emitted_groups) = 2
    /\ \E g, h \in 1..2 :
          /\ emitted_groups[g].hint = "grid" /\ emitted_groups[g].row_count = 3
          /\ emitted_groups[h].hint # "grid" /\ emitted_groups[h].row_count = 2

----------------------------------------------------------------------------
(* C20: the horizontal lines of a table region *)

\* The lines reachable from the lines of S through x-span overlaps of at least
\* 30% of the shorter span.
RECURSIVE LinkedTo(_)
LinkedTo(S) ==
    LET more == { j \in 1..Len(h_lines) :
                    \E i \in S : lines_overlap_x(h_lines[i], h_lines[j]) }
    IN  IF more \subseteq S THEN S ELSE LinkedTo(S \cup more)

\* C20 as stated: two horizontal lines are in the same region only if they are
\* linked by x-span overlaps, directly or through other lines.
C20_SameRegionOnlyIfLinked ==
    tr_pc = "done" =>
        \A r \in 1..Len(regions) :
            \A a, b \in 1..Len(regions[r].h_lines) :
                regions[r].h_lines[b] \in LinkedTo({regions[r].h_lines[a]})

----------------------------------------------------------------------------
(* C21: what a span covers *)

\* C21 as stated: besides its origin cell a span covers only empty cells, and
\* every non-empty cell is the origin of exactly one span.
C21_SpansSwallowNoText ==
    ds_pc = "done" =>
        /\ \A i \in 1..Len(spans) :
              \A r \in DOMAIN cells : \A c \in DOMAIN cells[r] :
                  (InsideSpan(spans[i], r, c) /\ <<r, c>> # <<spans[i].row, spans[i].col>>)
                      => ~cells[r][c]
        /\ \A r \in DOMAIN cells : \A c \in DOMAIN cells[r] :
              cells[r][c] =>
                  Cardinality({ i \in 1..Len(spans) :
                                  spans[i].row = r /\ spans[i].col = c }) = 1

----------------------------------------------------------------------------
(* C22: the cell of a block *)

GridGroupRows == GroupRows(rows, row_indices)
GridColumns   == infer_grid_columns(GridGroupRows)

\* The cells (1-based) of group row k that hold block b.
CellsHolding(k, b) ==
    { c \in 1..Len(grid[1].rows[k].cells) : grid[1].rows[k].cells[c] = <<b>> }

\* C22: every block of a row is in at most one cell of the row, and that cell is
\* the lowest-index column the block overlaps.
C22_BlockInFirstOverlappingColumnOnly ==
    (grid_pc = "done" /\ grid # <<>>) =>
        \A k \in 1..Len(GridGroupRows) :
            \A i \in 1..Len(GridGroupRows[k].blocks) :
                LET b == GridGroupRows[k].blocks[i]
                IN  /\ Cardinality(CellsHolding(k, b)) <= 1
                    /\ \A c \in CellsHolding(k, b) :
                          /\ OverlapsColumn(b, GridColumns[c])
                          /\ \A d \in 1..(c - 1) : ~OverlapsColumn(b, GridColumns[d])

\* A block that overlaps two columns and sits in one cell.
C22_Witness ==
    /\ grid_pc = "done" /\ grid # <<>>
    /\ \E k \in 1..Len(GridGroupRows) : \E i \in 1..Len(GridGroupRows[k].blocks) :
          LET b == GridGroupRows[k].blocks[i]
          IN  /\ Cardinality({ c \in 1..Len(GridColumns) : OverlapsColumn(b, GridColumns[c]) }) >= 2
              /\ Cardinality(CellsHolding(k, b)) = 1

----------------------------------------------------------------------------
(* C28: no block of a group row is lost by the grid *)

\* C28 as stated: every block of every row of the group is in the cells array of
\* its row.
C28_EveryBlockInACell ==
    (grid_pc = "done" /\ grid # <<>>) =>
        \A k \in 1..Len(GridGroupRows) :
            \A i \in 1..Len(GridGroupRows[k].blocks) :
                CellsHolding(k, GridGroupRows[k].blocks[i]) # {}

----------------------------------------------------------------------------
(* C23: order and ids of the assembled blocks *)

RECURSIVE JoinedText(_, _, _)
JoinedText(bs, lo, hi) ==
    IF lo > hi THEN <<>> ELSE bs[lo].text \o JoinedText(bs, lo + 1, hi)

\* C23: the returned blocks are in non-decreasing (y0, x0) order and carry the
\* ids 0..n-1 in list order; each is the concatenation of a run of blocks that
\* are adjacent in the sorted list, and the runs follow each other in that order.
C23_SortedNumberedAndMergedInOrder ==
    ab_pc = "returned" =>
        /\ \A i \in 1..(Len(page_blocks) - 1) :
              ~KeyBefore(BlockKey(page_blocks[i + 1]), BlockKey(page_blocks[i]))
        /\ \A i \in 1..Len(page_blocks) : page_blocks[i].id = i - 1
        /\ \A i \in 1..Len(page_blocks) :
              \E lo, hi \in 1..Len(sorted_blocks) :
                  /\ lo <= hi
                  /\ page_blocks[i].text = JoinedText(sorted_blocks, lo, hi)
                  /\ page_blocks[i].bbox.x0 = sorted_blocks[lo].bbox.x0
                  /\ page_blocks[i].bbox.y0 = sorted_blocks[lo].bbox.y0
        /\ JoinedText(page_blocks, 1, Len(page_blocks))
              = JoinedText(sorted_blocks, 1, Len(sorted_blocks))

\* The sort changed the order of the blocks and the continuation merge joined
\* two of them.
C23_Witness ==
    /\ ab_pc = "returned"
    /\ Len(page_blocks) >= 2
    /\ Len(page_blocks) < Len(sorted_blocks)
    /\ [i \in 1..Len(sorted_blocks) |-> sorted_blocks[i].text]
          # [i \in 1..Len(line_blocks) |-> line_blocks[i].text]

----------------------------------------------------------------------------
(* C27: the bbox of a merged block *)

WellFormed(bbox) == bbox.x0 <= bbox.x1 /\ bbox.y0 <= bbox.y1

Contains(outer, inner) ==
    /\ outer.x0 <= inner.x0 /\ inner.x1 <= outer.x1
    /\ outer.y0 <= inner.y0 /\ inner.y1 <= outer.y1

\* C27 as stated: the spans being well formed, every block made by span merging
\* and by continuation merging has a well-formed bbox that contains the bbox of
\* every span merged into it.
C27_MergedBboxContainsParts ==
    ab_pc = "returned" =>
        \A i \in 1..Len(page_blocks) :
            /\ WellFormed(page_blocks[i].bbox)
            /\ \A k \in 1..Len(page_blocks[i].text) :
                  Contains(page_blocks[i].bbox, raw_spans[page_blocks[i].text[k] + 1].bbox)

----------------------------------------------------------------------------
(* C24: the summary counters of a form record *)

RECURSIVE HistogramTotal(_, _)
HistogramTotal(h, types) ==
    IF types = {} THEN 0
    ELSE LET t == CHOOSE x \in types : TRUE
         IN  h[t] + HistogramTotal(h, types \ {t})

\* C24: in a form record total_blocks, total_rows, total_row_groups and
\* total_controls are the lengths of blocks, rows, row_groups and controls.items,
\* and the counts of row_types add up to total_rows.
C24_SummaryAgreesWithData ==
    IsFormRecord =>
        /\ result.summary.total_blocks = Len(result.text.blocks)
        /\ result.summary.total_rows = Len(result.text.rows[1])
        /\ result.summary.total_row_groups = Len(result.text.row_groups[1])
        /\ result.summary.total_controls = Len(result.controls.items)
        /\ HistogramTotal(result.summary.row_types[1], DOMAIN result.summary.row_types[1])
              = result.summary.total_rows

\* A form record with two rows of one type, a row group and a control.
C24_Witness ==
    /\ IsFormRecord
    /\ \E t \in DOMAIN result.summary.row_types[1] : result.summary.row_types[1][t] >= 2
    /\ result.summary.total_row_groups >= 1
    /\ result.summary.total_controls >= 1

----------------------------------------------------------------------------
(* C25: headers and paragraphs in row groups *)

Ungroupable == {"header", "paragraph"}

\* C25 as stated: can_group_rows is False whenever one of the two rows is a
\* header or a paragraph, so no group holds such a row.
C25_HeadersAndParagraphsNeverGroup ==
    gc_pc = "done" =>
        /\ \A i, j \in 1..Len(input_rows) :
              (i < j /\ (input_rows[i].type \in Ungroupable
                          \/ input_rows[j].type \in Ungroupable))
                  => ~can_group_rows(input_rows[i], input_rows[j])
        /\ \A g \in 1..Len(emitted_groups) :
              \A k \in 1..Len(emitted_groups[g].row_indices) :
                  input_rows[emitted_groups[g].row_indices[k] + 1].type \notin Ungroupable

----------------------------------------------------------------------------
(* C26: the rows of a form record and the blocks of the page *)

\* The places <<row, position>> at which the record's rows hold the block with
\* this id.
RowPlaces(id) ==
    LET rs == result.text.rows[1]
    IN  { p \in (1..Len(rs)) \X (1..Len(blocks)) :
            p[2] <= Len(rs[p[1]].blocks) /\ rs[p[1]].blocks[p[2]].id = id }

\* C26 as stated: on a form page every text block of the page is in exactly one
\* row of the record, whether the rows are the visual-band rows or the
\* text-proximity rows.
C26_EveryBlockInExactlyOneRow ==
    IsFormRecord =>
        \A b \in 1..Len(result.text.blocks) :
            Cardinality(RowPlaces(result.text.blocks[b].id)) = 1

\* What does hold: no block is in two rows, under either row source.
C26_NoBlockInTwoRows ==
    IsFormRecord =>
        \A b \in 1..Len(result.text.blocks) :
            Cardinality(RowPlaces(result.text.blocks[b].id)) <= 1

\* And the text-proximity rows drop no block.
C26_ProximityRowsHoldEveryBlock ==
    (IsFormRecord /\ result.text.row_source = "text_y_proximity") =>
        \A b \in 1..Len(result.text.blocks) :
            Cardinality(RowPlaces(result.text.blocks[b].id)) = 1

----------------------------------------------------------------------------
(* C29: the scale factor of the fusion stage *)

\* The factor is the ratio of image height to page height, as far as its 2
\* decimals can tell.
IsHeightRatio(sf, image, page) == 2 * Abs(sf * page - 100 * image) <= page

\* The bottom raster row converts to the page height, to 1 part in 100.
BottomRowIsPageHeight(sf, image, page) ==
    100 * Abs(ToDocument(image, sf) - 100 * page) <= 100 * page

\* C29 as stated: for every page size the factor the fusion stage uses is the
\* rendered image's height over the page's height, so the bottom raster row
\* converts to the page height.
C29_ScaleIsImageOverPageHeight ==
    sc_pc = "fusion" =>
        /\ IsHeightRatio(fusion_scale, image_height, pdf_height)
        /\ BottomRowIsPageHeight(fusion_scale, image_height, pdf_height)

\* What the code computes: the image's height over 842, whatever the page; this
\* is the ratio above for pages 842pt high.
C29_ScaleIsImageOverA4Height ==
    sc_pc = "fusion" =>
        /\ fusion_scale = ReportedScale(PixmapHeight(pdf_height, RenderDpi))
        /\ pdf_height = StandardHeight =>
              /\ IsHeightRatio(fusion_scale, image_height, pdf_height)
              /\ BottomRowIsPageHeight(fusion_scale, image_height, pdf_height)

----------------------------------------------------------------------------
(* C30: which detections reach the fusion stage *)

ValidCheckboxes ==
    filter_valid_controls(detections.checkboxes, blocks, scale_factor, page_width)

OtherDetections == Len(detections.radio_buttons) + Len(detections.input_boxes)

\* C30: the controls that are filtered, counted and put into controls.items are
\* checkbox detections only, so radio-button and input-box detections are never
\* among the items and never counted, and a page with fewer than 2 valid
\* checkboxes is not classified form by the has_controls rule, however many
\* radio buttons and input boxes were detected.
C30_OnlyCheckboxesReachFusion ==
    /\ \A i \in 1..Len(raw_controls) : raw_controls[i].type = "checkbox"
    /\ (ex_pc \in {"branch", "returned"} /\ blocks # <<>>) =>
          /\ valid_controls = ValidCheckboxes
          /\ control_count = Len(ValidCheckboxes)
    /\ (Returned /\ ~IsErrorRecord(result)) =>
          /\ result.classification.signals # <<>> =>
                result.classification.signals.control_count = Len(ValidCheckboxes)
          /\ Len(ValidCheckboxes) < 2 => result.classification.reason # "has_controls"
    /\ IsFormRecord =>
          \A i \in 1..Len(result.controls.items) :
              result.controls.items[i].type = "checkbox"

\* A form record of a page on which radio buttons and input boxes were detected
\* and one checkbox is valid: the page is a form by another rule and the
\* checkbox is the only item.
C30_Witness ==
    /\ IsFormRecord
    /\ Len(detections.radio_buttons) >= 2
    /\ Len(detections.input_boxes) >= 2
    /\ Len(ValidCheckboxes) = 1
    /\ Len(result.controls.items) = 1
    /\ result.classification.reason # "has_controls"

====
